---------------------------- MODULE Spec2Model ----------------------------
(***************************************************************************)
(* bePelias: the resolution engine (BePelias._struct_or_unstruct,          *)
(* _advanced_mode, _unstructured_mode, _search_for_coordinates), the       *)
(* ResultChecker filters, the address transformers and Pelias.call_service.*)
(*                                                                         *)
(* Python strings are TLA+ strings, read with Len, SubSeq and \o.  The     *)
(* character "#" stands for the accented letter e-acute and "@" for its    *)
(* upper case: they are letters for upper()/lower()/unidecode() and are    *)
(* not matched by the regular-expression class [a-zA-Z].                   *)
(***************************************************************************)
EXTENDS Integers, Sequences, FiniteSets, TLC

\* Python's None, and a key that a dict does not hold.
None == "<None>"
Absent == "<absent>"

IsNull(v) == v = None

Min2(a, b) == IF a <= b THEN a ELSE b
Max2(a, b) == IF a >= b THEN a ELSE b

(***************************************************************************)
(* Characters and strings                                                  *)
(***************************************************************************)
Ch(s, i) == SubSeq(s, i, i)

LowerAlpha == "abcdefghijklmnopqrstuvwxyz#"
UpperAlpha == "ABCDEFGHIJKLMNOPQRSTUVWXYZ@"
DigitChars == {"0", "1", "2", "3", "4", "5", "6", "7", "8", "9"}

CharsOf(s) == {Ch(s, i) : i \in 1..Len(s)}

\* the class [a-zA-Z]
AsciiLetters == CharsOf(SubSeq(LowerAlpha, 1, 26)) \cup CharsOf(SubSeq(UpperAlpha, 1, 26))

IndexIn(c, alpha) == IF \E i \in 1..Len(alpha) : Ch(alpha, i) = c
                     THEN CHOOSE i \in 1..Len(alpha) : Ch(alpha, i) = c
                     ELSE 0

UpperCh(c) == IF IndexIn(c, LowerAlpha) > 0 THEN Ch(UpperAlpha, IndexIn(c, LowerAlpha)) ELSE c
LowerCh(c) == IF IndexIn(c, UpperAlpha) > 0 THEN Ch(LowerAlpha, IndexIn(c, UpperAlpha)) ELSE c
\* unidecode(): the ASCII transliteration of one character
UnidecodeCh(c) == IF c = "#" THEN "e" ELSE IF c = "@" THEN "E" ELSE c

RECURSIVE MapStr(_, _, _)
MapStr(s, i, kind) ==
    IF i > Len(s) THEN ""
    ELSE (CASE kind = "upper" -> UpperCh(Ch(s, i))
            [] kind = "lower" -> LowerCh(Ch(s, i))
            [] kind = "unidecode" -> UnidecodeCh(Ch(s, i))
            [] kind = "dot" -> (IF Ch(s, i) = "." THEN " " ELSE Ch(s, i)))
         \o MapStr(s, i + 1, kind)

Upper(s) == MapStr(s, 1, "upper")
Lower(s) == MapStr(s, 1, "lower")
Unidecode(s) == MapStr(s, 1, "unidecode")

\* str.lstrip() / rstrip() / strip() on the blank
RECURSIVE LStrip(_)
LStrip(s) == IF Len(s) > 0 /\ Ch(s, 1) = " " THEN LStrip(SubSeq(s, 2, Len(s))) ELSE s
RECURSIVE RStrip(_)
RStrip(s) == IF Len(s) > 0 /\ Ch(s, Len(s)) = " " THEN RStrip(SubSeq(s, 1, Len(s) - 1)) ELSE s
Strip(s) == LStrip(RStrip(s))

StartsWith(s, p) == Len(s) >= Len(p) /\ SubSeq(s, 1, Len(p)) = p
EndsWith(s, p) == Len(s) >= Len(p) /\ SubSeq(s, Len(s) - Len(p) + 1, Len(s)) = p
\* re.sub("^p", "", s) and re.sub("p$", "", s) for a literal p
DropPrefix(s, p) == IF StartsWith(s, p) THEN SubSeq(s, Len(p) + 1, Len(s)) ELSE s
DropSuffix(s, p) == IF EndsWith(s, p) THEN SubSeq(s, 1, Len(s) - Len(p)) ELSE s

Contains(s, c) == \E i \in 1..Len(s) : Ch(s, i) = c
HasDigit(s) == \E i \in 1..Len(s) : Ch(s, i) \in DigitChars
\* re.match("^[0-9]+$", s)
AllDigits(s) == Len(s) > 0 /\ \A i \in 1..Len(s) : Ch(s, i) \in DigitChars

\* re.match("[0-9]+", s)[0]: the leading run of digits ("" when there is no match)
RECURSIVE LeadingDigits(_)
LeadingDigits(s) == IF Len(s) > 0 /\ Ch(s, 1) \in DigitChars
                    THEN Ch(s, 1) \o LeadingDigits(SubSeq(s, 2, Len(s)))
                    ELSE ""

\* str.split(sep): the parts, in order
RECURSIVE SplitAt(_, _)
SplitAt(s, sep) ==
    IF ~Contains(s, sep) THEN <<s>>
    ELSE LET i == CHOOSE k \in 1..Len(s) : Ch(s, k) = sep /\ \A j \in 1..(k - 1) : Ch(s, j) # sep
         IN <<SubSeq(s, 1, i - 1)>> \o SplitAt(SubSeq(s, i + 1, Len(s)), sep)

(***************************************************************************)
(* remove_patterns (bepelias.py:47-55), one operator per substitution      *)
(***************************************************************************)
\* (r"\(.+\)$", ""): from the leftmost "(" that leaves one character before a final ")"
SubParen(s) ==
    IF Len(s) >= 3 /\ Ch(s, Len(s)) = ")" /\ \E i \in 1..(Len(s) - 2) : Ch(s, i) = "("
    THEN LET i == CHOOSE k \in 1..(Len(s) - 2) :
                      Ch(s, k) = "(" /\ \A j \in 1..(k - 1) : Ch(s, j) # "("
         IN SubSeq(s, 1, i - 1)
    ELSE s

\* ("[, ]*(SN|ZN)$", ""): a final SN or ZN with the commas and blanks before it
RECURSIVE DropSeps(_)
DropSeps(s) == IF Len(s) > 0 /\ Ch(s, Len(s)) \in {",", " "}
               THEN DropSeps(SubSeq(s, 1, Len(s) - 1))
               ELSE s
SubNoNumber(s) ==
    IF EndsWith(s, "SN") \/ EndsWith(s, "ZN")
    THEN DropSeps(SubSeq(s, 1, Len(s) - 2))
    ELSE s

\* ("' ", "'")
RECURSIVE SubQuote(_)
SubQuote(s) ==
    IF Len(s) = 0 THEN ""
    ELSE IF StartsWith(s, "' ") THEN "'" \o SubQuote(SubSeq(s, 3, Len(s)))
    ELSE Ch(s, 1) \o SubQuote(SubSeq(s, 2, Len(s)))

\* (" [a-zA-Z][. ]", " "): a single-letter initial
RECURSIVE SubInitial(_)
SubInitial(s) ==
    IF Len(s) = 0 THEN ""
    ELSE IF Len(s) >= 3 /\ Ch(s, 1) = " " /\ Ch(s, 2) \in AsciiLetters /\ Ch(s, 3) \in {".", " "}
    THEN " " \o SubInitial(SubSeq(s, 4, Len(s)))
    ELSE Ch(s, 1) \o SubInitial(SubSeq(s, 2, Len(s)))

\* ("[.]", " ")
SubDot(s) == MapStr(s, 1, "dot")

\* (",[a-zA-Z .'-]*$", " "): the last comma, when only letters, blanks, ".", "'", "-" follow
SubTrailingCity(s) ==
    IF \E i \in 1..Len(s) :
          Ch(s, i) = "," /\ \A j \in (i + 1)..Len(s) : Ch(s, j) \in AsciiLetters \cup {" ", ".", "'", "-"}
    THEN LET i == CHOOSE k \in 1..Len(s) :
                      Ch(s, k) = ","
                      /\ \A j \in (k + 1)..Len(s) : Ch(s, j) \in AsciiLetters \cup {" ", ".", "'", "-"}
         IN SubSeq(s, 1, i - 1) \o " "
    ELSE s

\* all of remove_patterns, in order; the last two are ("[ ]+$", "") and ("^[ ]+", "")
ApplyRemovePatterns(s) ==
    LStrip(RStrip(SubTrailingCity(SubDot(SubInitial(SubQuote(SubNoNumber(SubParen(s))))))))

(***************************************************************************)
(* utils.py: build_address, build_city, transform                          *)
(***************************************************************************)
build_address(street_name, house_number) ==
    IF IsNull(street_name) \/ Len(Strip(street_name)) = 0 THEN ""
    ELSE IF IsNull(house_number) \/ Len(Strip(house_number)) = 0 THEN street_name
    ELSE street_name \o ", " \o house_number

\* post_name or "" / post_code or ""
OrEmpty(v) == IF IsNull(v) THEN "" ELSE v

build_city(post_code, post_name) ==
    IF IsNull(post_code) \/ Len(post_code) = 0 THEN OrEmpty(post_name)
    ELSE IF IsNull(post_name) \/ Len(post_name) = 0 THEN OrEmpty(post_code)
    ELSE post_code \o " " \o post_name

\* the "clean_hn" branch of transform
CleanHn(hn) ==
    IF IsNull(hn) THEN hn
    ELSE LET h1 == IF Contains(hn, "-") THEN Strip(SplitAt(hn, "-")[1]) ELSE hn
         IN IF LeadingDigits(h1) # "" THEN LeadingDigits(h1) ELSE h1

\* the "clean" branch of transform, on one field
CleanField(v) == IF IsNull(v) THEN None ELSE ApplyRemovePatterns(v)

transform(addr_data, transformer) ==
    CASE transformer = "no_city" -> [addr_data EXCEPT !.post_name = ""]
      [] transformer = "no_hn" -> [addr_data EXCEPT !.house_number = ""]
      [] transformer = "no_street" -> [addr_data EXCEPT !.street_name = "", !.house_number = ""]
      [] transformer = "clean_hn" -> [addr_data EXCEPT !.house_number = CleanHn(@)]
      [] transformer = "clean" -> [addr_data EXCEPT !.street_name = CleanField(@),
                                                    !.post_name = CleanField(@)]
      [] OTHER -> addr_data

\* for t in transf: transf_addr_data = transform(transf_addr_data, t, remove_patterns)
RECURSIVE ApplyTransformers(_, _)
ApplyTransformers(addr_data, transf) ==
    IF transf = <<>> THEN addr_data
    ELSE ApplyTransformers(transform(addr_data, Head(transf)), Tail(transf))

default_transformer_sequence ==
    << <<>>,
       <<"clean">>,
       <<"clean", "no_city">>,
       <<"no_city">>,
       <<"clean_hn">>,
       <<"no_city", "clean_hn">>,
       <<"clean", "no_city", "clean_hn">>,
       <<"no_hn">>,
       <<"no_city", "no_hn">>,
       <<"no_street">> >>

unstruct_transformer_sequence ==
    << <<"no_city">>,
       <<"clean", "no_city">>,
       <<"clean_hn", "no_city">>,
       <<"clean", "clean_hn", "no_city">>,
       <<>>,
       <<"clean">>,
       <<"clean_hn">>,
       <<"no_hn">>,
       <<"no_city", "no_hn">>,
       <<"no_street">> >>

(***************************************************************************)
(* A Pelias feature (candidate).  properties.* are flat fields; a key the  *)
(* feature does not hold is Absent.  best is properties.addendum.best (a   *)
(* record of its keys) and has_best says whether it is there; box_info is  *)
(* the list of the boxes' coordinates <<lon, lat>>.  bep says whether the  *)
(* feature holds a "bepelias" dict, with its keys interpolated, precision. *)
(* Similarities and scores are in thousandths; confidence in hundredths.   *)
(***************************************************************************)
NoBest == [streetname_fr |-> Absent, streetname_nl |-> Absent, streetname_de |-> Absent,
           postname_fr |-> Absent, postname_nl |-> Absent, postname_de |-> Absent,
           municipality_name_fr |-> Absent, municipality_name_nl |-> Absent,
           municipality_name_de |-> Absent,
           part_of_municipality_name_fr |-> Absent, part_of_municipality_name_nl |-> Absent,
           part_of_municipality_name_de |-> Absent,
           has_box_info |-> FALSE, box_info |-> <<>>]

Has(v) == v # Absent

similarity_threshold == 800
postcode_match_length == 2

(***************************************************************************)
(* textdistance: jaro_winkler, sorensen_dice, levenshtein                  *)
(***************************************************************************)
CountCh(s, c) == Cardinality({i \in 1..Len(s) : Ch(s, i) = c})

\* the greedy matching of Jaro: for each i of s1 in order, the first free j of s2 in the window
RECURSIVE JaroMatch(_, _, _, _, _)
JaroMatch(s1, s2, i, used, pairs) ==
    IF i > Len(s1) THEN pairs
    ELSE LET range == Max2((Max2(Len(s1), Len(s2)) \div 2) - 1, 0)
             low == Max2(1, i - range)
             hi == Min2(i + range, Len(s2))
             cand == {j \in low..hi : j \notin used /\ Ch(s2, j) = Ch(s1, i)}
         IN IF cand = {} THEN JaroMatch(s1, s2, i + 1, used, pairs)
            ELSE LET j == CHOOSE k \in cand : \A l \in cand : k <= l
                 IN JaroMatch(s1, s2, i + 1, used \cup {j}, Append(pairs, <<i, j>>))

\* the k-th smallest element of a finite set of integers
RECURSIVE SortedSeq(_)
SortedSeq(S) == IF S = {} THEN <<>>
                ELSE LET m == CHOOSE k \in S : \A l \in S : k <= l
                     IN <<m>> \o SortedSeq(S \ {m})

\* textdistance.jaro_winkler(s1, s2), in thousandths
jaro_winkler(s1, s2) ==
    IF s1 = s2 THEN 1000
    ELSE IF Len(s1) = 0 \/ Len(s2) = 0 THEN 0
    ELSE LET pairs == JaroMatch(s1, s2, 1, {}, <<>>)
             c == Len(pairs)
             js == SortedSeq({pairs[k][2] : k \in 1..c})
             trans == Cardinality({k \in 1..c : Ch(s1, pairs[k][1]) # Ch(s2, js[k])}) \div 2
             l1 == Len(s1)
             l2 == Len(s2)
             \* weight = (c/l1 + c/l2 + (c - trans)/c) / 3 = num / den
             num == c * c * l2 + c * c * l1 + (c - trans) * l1 * l2
             den == 3 * l1 * l2 * c
             pre == Cardinality({k \in 1..Min2(Min2(l1, l2), 4) :
                                    \A m \in 1..k : Ch(s1, m) = Ch(s2, m)})
         IN IF c = 0 THEN 0
            ELSE IF 10 * num <= 7 * den THEN (1000 * num) \div den
            ELSE (1000 * (10 * num + pre * (den - num))) \div (10 * den)

\* textdistance.sorensen_dice(s1, s2), in thousandths
sorensen_dice(s1, s2) ==
    IF s1 = s2 THEN 1000
    ELSE IF Len(s1) = 0 \/ Len(s2) = 0 THEN 0
    ELSE LET chars == SortedSeq({IndexIn(c, s1) : c \in CharsOf(s1)})
             RECURSIVE Inter(_)
             Inter(k) == IF k > Len(chars) THEN 0
                         ELSE Min2(CountCh(s1, Ch(s1, chars[k])), CountCh(s2, Ch(s1, chars[k])))
                              + Inter(k + 1)
         IN (1000 * 2 * Inter(1)) \div (Len(s1) + Len(s2))

\* one row of the edit-distance table (the tests on v and row only make TLC compute them here)
RECURSIVE LevRow(_, _, _, _, _)
LevRow(prev, a, s2, j, cur) ==
    IF j > Len(s2) THEN cur
    ELSE LET v == Min2(Min2(prev[j + 1] + 1, cur[j] + 1),
                       prev[j] + (IF a = Ch(s2, j) THEN 0 ELSE 1))
         IN IF v >= 0 THEN LevRow(prev, a, s2, j + 1, Append(cur, v)) ELSE cur
RECURSIVE LevRows(_, _, _, _)
LevRows(s1, s2, i, prev) ==
    IF i > Len(s1) THEN prev[Len(s2) + 1]
    ELSE LET row == LevRow(prev, Ch(s1, i), s2, 1, <<i>>)
         IN IF Len(row) > 0 THEN LevRows(s1, s2, i + 1, row) ELSE 0
\* textdistance.levenshtein(s1, s2)
levenshtein(s1, s2) == LevRows(s1, s2, 1, [j \in 1..(Len(s2) + 1) |-> j - 1])

(***************************************************************************)
(* result_checker.py                                                       *)
(***************************************************************************)
\* re.sub("[. ]", "", s)
RECURSIVE DropDotsBlanks(_)
DropDotsBlanks(s) ==
    IF Len(s) = 0 THEN ""
    ELSE (IF Ch(s, 1) \in {".", " "} THEN "" ELSE Ch(s, 1)) \o DropDotsBlanks(SubSeq(s, 2, Len(s)))

RECURSIVE IsSubsequence(_, _)
IsSubsequence(s1, s2) ==
    IF Len(s1) = 0 THEN TRUE
    ELSE IF Len(s2) = 0 THEN FALSE
    ELSE IF Ch(s1, 1) = Ch(s2, 1) THEN IsSubsequence(SubSeq(s1, 2, Len(s1)), SubSeq(s2, 2, Len(s2)))
    ELSE IsSubsequence(s1, SubSeq(s2, 2, Len(s2)))

\* ResultChecker._is_partial_substring, in thousandths (1 or 0)
is_partial_substring(s1, s2) ==
    LET a == DropDotsBlanks(s1)
        b == DropDotsBlanks(s2)
    IN IF (IF Len(a) > Len(b) THEN IsSubsequence(b, a) ELSE IsSubsequence(a, b)) THEN 1000 ELSE 0

\* lambda s1, s2: 1 - textdistance.levenshtein(s1, s2)/max(len(s1), len(s2))
\* (both strings empty divides by zero; jaro_winkler has answered 1 before)
levenshtein_sim(s1, s2) ==
    LET m == Max2(Len(s1), Len(s2))
    IN (1000 * (m - levenshtein(s1, s2))) \div m

\* ResultChecker._apply_sim_functions: the first metric at or above the threshold, or None
\* (NoSim); "if not threshold" puts similarity_threshold for a threshold not given
\* (NoThreshold) and for 0
NoSim == -1
NoThreshold == -2
ThresholdInForce(threshold) ==
    IF threshold = NoThreshold \/ threshold = 0 THEN similarity_threshold ELSE threshold
\* the same with the metrics in the reverse order
apply_sim_functions_reversed(str1, str2, threshold) ==
    LET t == ThresholdInForce(threshold)
    IN IF is_partial_substring(str1, str2) >= t THEN is_partial_substring(str1, str2)
       ELSE IF levenshtein_sim(str1, str2) >= t THEN levenshtein_sim(str1, str2)
       ELSE IF sorensen_dice(str1, str2) >= t THEN sorensen_dice(str1, str2)
       ELSE IF jaro_winkler(str1, str2) >= t THEN jaro_winkler(str1, str2)
       ELSE NoSim
apply_sim_functions(str1, str2, threshold) ==
    LET t == ThresholdInForce(threshold)
    IN IF jaro_winkler(str1, str2) >= t THEN jaro_winkler(str1, str2)
       ELSE IF sorensen_dice(str1, str2) >= t THEN sorensen_dice(str1, str2)
       ELSE IF levenshtein_sim(str1, str2) >= t THEN levenshtein_sim(str1, str2)
       ELSE IF is_partial_substring(str1, str2) >= t THEN is_partial_substring(str1, str2)
       ELSE NoSim

\* ResultChecker._remove_street_types
remove_street_types(street_name) ==
    LET a == DropPrefix(DropPrefix(DropPrefix(DropPrefix(DropPrefix(DropPrefix(DropPrefix(
                 street_name, "RUE "), "AVENUE "), "CHAUSSEE "), "ALLEE "), "BOULEVARD "),
                 "PLACE "), "CHEMIN ")
        b == DropSuffix(DropSuffix(DropSuffix(a, "STRAAT"), "STEENWEG"), "LAAN")
        c == DropPrefix(DropPrefix(DropPrefix(DropPrefix(b, "DE LA "), "DE "), "DU "), "DES ")
    IN Strip(c)

\* a sequence without its repeated elements (the previous_res sets of the generators)
RECURSIVE Dedup(_, _)
Dedup(seq, seen) ==
    IF seq = <<>> THEN <<>>
    ELSE IF Head(seq) \in seen THEN Dedup(Tail(seq), seen)
    ELSE <<Head(seq)>> \o Dedup(Tail(seq), seen \cup {Head(seq)})

RECURSIVE SelectPresent(_)
SelectPresent(seq) ==
    IF seq = <<>> THEN <<>>
    ELSE (IF Has(Head(seq)) THEN <<Head(seq)>> ELSE <<>>) \o SelectPresent(Tail(seq))

RECURSIVE MapSeq(_, _)
MapSeq(seq, kind) ==
    IF seq = <<>> THEN <<>>
    ELSE <<(CASE kind = "upper" -> Upper(Head(seq))
              [] kind = "unidecode_upper" -> Unidecode(Upper(Head(seq)))
              [] kind = "strip" -> Strip(Head(seq)))>> \o MapSeq(Tail(seq), kind)

\* ResultChecker.get_feature_street_names
get_feature_street_names(feature) ==
    Dedup(MapSeq(SelectPresent(
              <<feature.street>>
              \o (IF feature.has_best
                  THEN <<feature.best.streetname_fr, feature.best.streetname_nl,
                         feature.best.streetname_de>>
                  ELSE <<>>)), "upper"), {})

\* ResultChecker._get_feature_city_names
get_feature_city_names(feature) ==
    IF feature.has_best
    THEN Dedup(MapSeq(SelectPresent(
                  <<feature.best.postname_fr, feature.best.postname_nl, feature.best.postname_de,
                    feature.best.municipality_name_fr, feature.best.municipality_name_nl,
                    feature.best.municipality_name_de>>), "unidecode_upper"), {})
    ELSE <<>>

\* ResultChecker._get_streetname_variants
RECURSIVE LongParts(_)
LongParts(parts) ==
    IF parts = <<>> THEN <<>>
    ELSE (IF Len(Head(parts)) > 5 THEN <<Head(parts)>> ELSE <<>>) \o LongParts(Tail(parts))
RECURSIVE PartVariants(_)
PartVariants(parts) ==
    IF parts = <<>> THEN <<>>
    ELSE <<remove_street_types(Head(parts)), ApplyRemovePatterns(remove_street_types(Head(parts)))>>
         \o PartVariants(Tail(parts))
get_streetname_variants(street_name) ==
    LET sn == Unidecode(Upper(street_name))
        parts == <<sn>> \o (IF Contains(sn, ",") THEN LongParts(MapSeq(SplitAt(sn, ","), "strip"))
                            ELSE <<>>)
    IN Dedup(PartVariants(parts), {})

\* the candidate-side names of one pass of check_streetname, in the order they are compared
RECURSIVE PrependCities(_, _)
PrependCities(cities, name) ==
    IF cities = <<>> THEN <<>>
    ELSE <<Head(cities) \o ", " \o name>> \o PrependCities(Tail(cities), name)
RECURSIVE FeatNames(_, _, _)
FeatNames(feature, names, with_city) ==
    IF names = <<>> THEN <<>>
    ELSE LET fsn == remove_street_types(Unidecode(Head(names)))
         IN (IF with_city THEN <<fsn>> ELSE PrependCities(get_feature_city_names(feature), fsn))
            \o FeatNames(feature, Tail(names), with_city)

\* "if sim: return sim", else go on
OrElse(sim, other) == IF sim # NoSim THEN sim ELSE other

\* the first comparison that qualifies, in the order of the three loops: names[p] holds the
\* candidate-side names of pass p (with_city False, then True), variants the query-side ones
RECURSIVE FirstSim(_, _, _, _, _)
FirstSim(variants, names, p, i, j) ==
    IF p > Len(names) THEN NoSim
    ELSE IF i > Len(variants) THEN FirstSim(variants, names, p + 1, 1, 1)
    ELSE IF j > Len(names[p]) THEN FirstSim(variants, names, p, i + 1, 1)
    ELSE OrElse(apply_sim_functions(names[p][j], variants[i], NoThreshold),
                FirstSim(variants, names, p, i, j + 1))

\* the loops of check_streetname; no comparison at all (sim == -1) gives 1
StreetSim(variants, feature, fnames) ==
    IF fnames = <<>> THEN 1000
    ELSE FirstSim(variants, <<FeatNames(feature, fnames, FALSE), FeatNames(feature, fnames, TRUE)>>,
                  1, 1, 1)

\* ResultChecker.check_streetname: a similarity, 1 (1000), or None (NoSim)
check_streetname(feature, street_name) ==
    IF IsNull(street_name) THEN 1000
    ELSE StreetSim(get_streetname_variants(street_name), feature, get_feature_street_names(feature))

\* ResultChecker.check_locality
RECURSIVE FirstLocalitySim(_, _)
FirstLocalitySim(locality_name, names) ==
    IF names = <<>> THEN NoSim
    ELSE OrElse(apply_sim_functions(Lower(Unidecode(locality_name)), Head(names), NoThreshold),
                FirstLocalitySim(locality_name, Tail(names)))

RECURSIVE MapLocality(_)
MapLocality(seq) ==
    IF seq = <<>> THEN <<>> ELSE <<Unidecode(Lower(Head(seq)))>> \o MapLocality(Tail(seq))

check_locality(feature, locality_name) ==
    IF IsNull(locality_name) THEN 1000
    ELSE FirstLocalitySim(locality_name,
            (IF Has(feature.locality) THEN <<Lower(feature.locality)>> ELSE <<>>)
            \o (IF feature.has_best
                THEN MapLocality(SelectPresent(
                        <<feature.best.postname_fr, feature.best.postname_nl,
                          feature.best.postname_de,
                          feature.best.municipality_name_fr, feature.best.municipality_name_nl,
                          feature.best.municipality_name_de,
                          feature.best.part_of_municipality_name_fr,
                          feature.best.part_of_municipality_name_nl,
                          feature.best.part_of_municipality_name_de>>))
                ELSE <<>>))

\* s[0:n]
Prefix(s, n) == SubSeq(s, 1, Min2(n, Len(s)))

\* ResultChecker.filter_postcode (bepelias.py calls it res_checker.check_postcode)
RECURSIVE filter_postcode(_, _)
filter_postcode(features, postcode) ==
    IF features = <<>> THEN <<>>
    ELSE (IF ~Has(Head(features).postalcode)
             \/ Prefix(Head(features).postalcode, postcode_match_length)
                = Prefix(postcode, postcode_match_length)
          THEN <<Head(features)>> ELSE <<>>)
         \o filter_postcode(Tail(features), postcode)

\* ResultChecker.filter_streetname
RECURSIVE filter_streetname(_, _)
filter_streetname(features, street_name) ==
    IF features = <<>> THEN <<>>
    ELSE (IF check_streetname(Head(features), street_name) # NoSim
          THEN <<Head(features)>> ELSE <<>>)
         \o filter_streetname(Tail(features), street_name)

(***************************************************************************)
(* utils.py: is_building, get_precision, add_precision                     *)
(***************************************************************************)
is_building(feature) ==
    (feature.match_type \in {"exact", "interpolated"} \/ feature.accuracy = "point")
    /\ Has(feature.housenumber)

\* "sub in s"
ContainsStr(s, sub) ==
    \E i \in 1..(Len(s) - Len(sub) + 1) : SubSeq(s, i, i + Len(sub) - 1) = sub

ZeroCoordinates == <<0, 0>>

\* get_precision: a KeyError gives "[keyerror]". A feature without "properties" is a record
\* without the property fields; a key missing inside "properties" has the value Absent, and
\* bep tells that the feature has its "bepelias" dict.
get_precision(feature) ==
    LET addr == IF feature.coordinates = ZeroCoordinates THEN "address_00"
                ELSE IF ~feature.bep THEN "[keyerror]"
                ELSE IF feature.interpolated = "street_center" THEN "address_streetcenter"
                ELSE IF feature.interpolated = "True" THEN "address_interpol"
                ELSE IF ~Has(feature.match_type) THEN "[keyerror]"
                ELSE IF feature.match_type = "interpolated"
                THEN (IF ~Has(feature.id) THEN "[keyerror]"
                      ELSE IF ContainsStr(Lower(feature.id), "/streetname/")
                              \/ ContainsStr(Lower(feature.id), "/straatnaam/")
                      THEN "street_interpol" ELSE "address_interpol2")
                ELSE IF feature.match_type = "exact" THEN "address"
                ELSE IF ~Has(feature.accuracy) THEN "[keyerror]"
                ELSE IF feature.accuracy = "point" THEN "address"
                ELSE "[fallthrough]"
        rest == IF feature.layer = "street"
                THEN (IF feature.coordinates = ZeroCoordinates THEN "street_00" ELSE "street")
                ELSE IF feature.layer \in {"city", "locality", "postalcode", "localadmin", "neighbourhood"}
                THEN (IF feature.coordinates = ZeroCoordinates THEN "city_00" ELSE "city")
                ELSE IF feature.layer \in {"region", "macroregion", "county"} THEN "country"
                ELSE "[todo]"
    IN IF "layer" \notin DOMAIN feature THEN "[keyerror]"
       ELSE IF ~Has(feature.layer) THEN "[keyerror]"
       ELSE IF feature.layer = "address" /\ addr # "[fallthrough]" THEN addr ELSE rest

\* add_precision, on one feature and on a feature list
AddPrecision1(feature) ==
    LET f == [feature EXCEPT !.bep = TRUE] IN [f EXCEPT !.precision = get_precision(f)]
RECURSIVE add_precision(_)
add_precision(features) ==
    IF features = <<>> THEN <<>>
    ELSE <<AddPrecision1(Head(features))>> \o add_precision(Tail(features))

(***************************************************************************)
(* Coordinate backfill: BePelias._interpolate, _search_for_coordinates.    *)
(* street_res is the feature list answered to the street-centre request,   *)
(* interp_res the answer of the interpolation request: <<>> for an empty   *)
(* answer ({} or []), else <<coordinates>>.                                *)
(***************************************************************************)
\* the filter of _interpolate: the street results holding the feature's postal code
RECURSIVE SamePostcode(_, _)
SamePostcode(features, postalcode) ==
    IF features = <<>> THEN <<>>
    ELSE (IF Has(Head(features).postalcode) /\ Head(features).postalcode = postalcode
          THEN <<Head(features)>> ELSE <<>>) \o SamePostcode(Tail(features), postalcode)

\* which requests _interpolate sends for a feature
InterpolateAsksStreet(feature) == Has(feature.street) /\ Has(feature.postalcode)
InterpolateAsksInterp(feature, street_res) ==
    InterpolateAsksStreet(feature) /\ SamePostcode(street_res, feature.postalcode) # <<>>

interpolate(feature, street_res, interp_res) ==
    IF ~Has(feature.street) THEN [kind |-> "none", coordinates |-> ZeroCoordinates]
    ELSE IF ~Has(feature.postalcode) THEN [kind |-> "none", coordinates |-> ZeroCoordinates]
    ELSE IF SamePostcode(street_res, feature.postalcode) = <<>>
    THEN [kind |-> "none", coordinates |-> ZeroCoordinates]
    ELSE IF Len(interp_res) = 0
    THEN [kind |-> "street_geometry",
          coordinates |-> SamePostcode(street_res, feature.postalcode)[1].coordinates]
    ELSE [kind |-> "geometry", coordinates |-> interp_res[1]]

\* boxes[0]["coordinates"] is usable: some box, and the first one's lat is not 0
FirstBoxUsable(feature) ==
    feature.has_best /\ feature.best.has_box_info /\ Len(feature.best.box_info) > 0
    /\ feature.best.box_info[1][2] # 0

\* feat["bepelias"] = {"interpolated": v}: the dict is replaced, a precision in it is lost
Relocate(feat, coordinates, v) ==
    [feat EXCEPT !.coordinates_orig = <<ZeroCoordinates>>, !.coordinates = coordinates,
                 !.bep = TRUE, !.interpolated = v, !.precision = Absent]

\* the same, with every interpolation outcome marked "street_center"
search_for_coordinates_one_mark(f, sres, interp_res) ==
    IF FirstBoxUsable(f)
    THEN Relocate(f, f.best.box_info[1], "from_boxnumber")
    ELSE LET interp == interpolate(f, sres, interp_res)
         IN IF interp.kind \in {"geometry", "street_geometry"}
            THEN Relocate(f, interp.coordinates, "street_center")
            ELSE f

search_for_coordinates(feat, street_res, interp_res) ==
    IF FirstBoxUsable(feat)
    THEN Relocate(feat, feat.best.box_info[1], "from_boxnumber")
    ELSE LET interp == interpolate(feat, street_res, interp_res)
         IN IF interp.kind = "geometry" THEN Relocate(feat, interp.coordinates, "True")
            ELSE IF interp.kind = "street_geometry"
            THEN Relocate(feat, interp.coordinates, "street_center")
            ELSE feat

(***************************************************************************)
(* The features and the answers the collaborators may give                  *)
(***************************************************************************)
BaseFeature ==
    [id |-> "be/address/1", layer |-> "address", match_type |-> "exact", accuracy |-> "point",
     housenumber |-> "20", street |-> "Rue Lo", postalcode |-> "1060", locality |-> "Gent",
     confidence |-> 100, has_best |-> FALSE, best |-> NoBest,
     coordinates |-> <<4, 50>>, coordinates_orig |-> <<>>,
     bep |-> FALSE, interpolated |-> Absent, precision |-> Absent]

\* an exact address
fBuilding == [BaseFeature EXCEPT !.has_best = TRUE, !.best = [NoBest EXCEPT !.streetname_fr = "Rue Lo"]]
\* an exact address the geocoder could not locate
fBuilding00 == [fBuilding EXCEPT !.id = "be/address/2", !.coordinates = ZeroCoordinates]
\* the same, with a located first box
fBuildingBox == [fBuilding00 EXCEPT !.id = "be/address/3",
                                    !.best = [NoBest EXCEPT !.streetname_fr = "Rue Lo",
                                                            !.has_box_info = TRUE,
                                                            !.box_info = << <<5, 51>> >>]]
\* a street
fStreet == [BaseFeature EXCEPT !.id = "be/streetname/7", !.layer = "street", !.match_type = "fallback",
                               !.accuracy = "centroid", !.housenumber = Absent, !.confidence = 80,
                               !.has_best = TRUE,
                               !.best = [NoBest EXCEPT !.streetname_fr = "Rue Lo"]]
\* an address of another street that is no building match
fHouse == [BaseFeature EXCEPT !.id = "be/address/4", !.match_type = "fallback", !.accuracy = "centroid",
                              !.street = "Kerkstraat", !.housenumber = "20A", !.confidence = 70]
\* a locality, in another postal zone
fCity == [BaseFeature EXCEPT !.id = "be/municipality/5", !.layer = "locality", !.match_type = "fallback",
                             !.accuracy = "centroid", !.housenumber = Absent, !.street = Absent,
                             !.postalcode = "9000", !.confidence = 90]
\* a locality with no postal code and no location
fBare == [BaseFeature EXCEPT !.id = "be/municipality/6", !.layer = "locality", !.match_type = "fallback",
                             !.accuracy = "centroid", !.housenumber = Absent, !.street = Absent,
                             !.postalcode = Absent, !.locality = "Luik", !.confidence = 50,
                             !.coordinates = ZeroCoordinates]

\* an exact address of another street
fOtherStreet == [fBuilding EXCEPT !.id = "be/address/8", !.street = "Kerkstraat",
                                  !.best = [NoBest EXCEPT !.streetname_fr = "Kerkstraat"]]

\* the feature lists a geocode request may be answered with
Responses ==
    { <<>>, <<fBuilding>>, <<fBuilding00>>, <<fStreet>>, <<fStreet, fBuilding>>, <<fHouse>>,
      <<fCity>>, <<fBare>> }

\* what Pelias.geocode / Pelias.interpolate give back or raise (call_service's outcomes)
GeocodeOutcomes ==
    {[status |-> "ok", features |-> r] : r \in Responses}
    \cup {[status |-> e, features |-> <<>>] : e \in {"PeliasException", "TimeoutError"}}
    \cup {[status |-> "no_features", features |-> <<>>]}

\* the same, for the structured retries of a free-text session
RetryOutcomes ==
    {[status |-> "ok", features |-> r] : r \in {<<>>, <<fStreet>>, <<fBuilding>>}}
    \cup {[status |-> "PeliasException", features |-> <<>>]}

\* the answers to the street-centre request of _interpolate
StreetOutcomes ==
    {[status |-> "ok", features |-> r] : r \in {<<>>, <<fStreet>>}}
    \cup {[status |-> "PeliasException", features |-> <<>>]}
\* the answers of the interpolation request: nothing, or coordinates
InterpOutcomes ==
    {[status |-> "ok", res |-> r] : r \in {<<>>, << <<6, 52>> >>}}
    \cup {[status |-> "PeliasException", res |-> <<>>]}

\* a request sent to a collaborator
Request(api, text, layers) == [api |-> api, text |-> text, layers |-> layers]

\* every way _search_for_coordinates(feat) can run: the requests it sends, and the feature it
\* leaves or the exception that leaves it
BackfillRuns(feat) ==
    LET street_req == Request("struct", feat.street, "None")
        interp_req == Request("interpolate", feat.street, "None")
    IN IF FirstBoxUsable(feat) \/ ~InterpolateAsksStreet(feat)
       THEN {[status |-> "ok", feat |-> search_for_coordinates(feat, <<>>, <<>>), requests |-> <<>>]}
       ELSE UNION {
              IF so.status # "ok"
              THEN {[status |-> so.status, feat |-> feat, requests |-> <<street_req>>]}
              ELSE IF ~InterpolateAsksInterp(feat, so.features)
              THEN {[status |-> "ok", feat |-> search_for_coordinates(feat, so.features, <<>>),
                     requests |-> <<street_req>>]}
              ELSE {IF io.status # "ok"
                    THEN [status |-> io.status, feat |-> feat,
                          requests |-> <<street_req, interp_req>>]
                    ELSE [status |-> "ok",
                          feat |-> search_for_coordinates(feat, so.features, io.res),
                          requests |-> <<street_req, interp_req>>]
                    : io \in InterpOutcomes}
              : so \in StreetOutcomes}

(***************************************************************************)
(* Result sets: a geocoder answer with the "bepelias" dict the engine adds *)
(***************************************************************************)
NoScore == -1
ResultSet(features, call_type, in_addr, cnt) ==
    [features |-> features, call_type |-> call_type, in_addr |-> in_addr,
     pelias_call_count |-> cnt, transformers |-> Absent, score |-> NoScore]

\* {"features": [], "bepelias": {"pelias_call_count": call_cnt}}
EmptyResult(cnt) == ResultSet(<<>>, Absent, Absent, cnt)

\* the index of the first building of a feature list, 0 when there is none
FirstBuilding(features) ==
    IF \E i \in 1..Len(features) : is_building(features[i])
    THEN CHOOSE i \in 1..Len(features) :
            is_building(features[i]) /\ \A j \in 1..(i - 1) : ~is_building(features[j])
    ELSE 0

\* the layers argument of the two geocode calls of _struct_or_unstruct
Layers(street_name, house_number) ==
    IF IsNull(street_name) \/ Len(street_name) = 0 THEN "locality"
    ELSE IF ~HasDigit(build_address(street_name, house_number)) THEN "street,locality"
    ELSE "None"

\* the free-text query of _struct_or_unstruct
UnstructAddr(q) ==
    LET a0 == build_address(q.street_name, q.house_number) \o ", " \o build_city(q.post_code, q.post_name)
        a1 == Strip(DropPrefix(Strip(a0), ","))
    IN Strip(DropSuffix(a1, ","))

\* a coordinator that sends the free-text request whatever the composed text is
UnstructSentAlways(addr) == TRUE

\* whether the free-text request is sent
UnstructSent(addr) == Len(Strip(addr)) > 0 /\ ~AllDigits(addr)

\* the postcode filter, where _struct_or_unstruct applies it
CheckedFeatures(features, q, check) ==
    IF ~IsNull(q.post_code) /\ check THEN filter_postcode(features, q.post_code) ELSE features

\* a choice that prefers the structured set whenever it is not empty
SelectResultStructFirst(struct, unstruct) ==
    IF Len(struct.features) > 0 THEN struct ELSE unstruct

\* lines 267-285: the set returned when neither holds a building
SelectResult(struct, unstruct) ==
    IF Len(struct.features) > 0
       /\ ((Len(unstruct.features) > 0
            /\ struct.features[1].confidence > unstruct.features[1].confidence)
           \/ Has(struct.features[1].street))
    THEN struct
    ELSE IF Len(unstruct.features) > 0 /\ Has(unstruct.features[1].street) THEN unstruct
    ELSE IF Len(struct.features) > 0 THEN struct
    ELSE unstruct

(***************************************************************************)
(* Inputs                                                                   *)
(***************************************************************************)
AddrData(street_name, house_number, post_code, post_name) ==
    [street_name |-> street_name, house_number |-> house_number,
     post_name |-> post_name, post_code |-> post_code]

\* the address queries a session is started with (geocode strips them first)
AddressQueries ==
    { AddrData("Rue Lo", "20", "1060", "Gent"),
      AddrData("Rue Lo (x)", "20-22", "1060", "Gent"),
      AddrData("Rue Lo", "20", "9999", "Luik"),
      AddrData("Rue Lo", "20", None, ""),
      AddrData("Rue Lo", None, "1060", "Gent"),
      AddrData(None, None, "1060", None),
      AddrData("", "", "1060", ""),
      AddrData("", "", "", "") }

\* how many transformer chains of a sequence a session goes through
MaxTransf == 2

\* the transformer_sequence argument of _advanced_mode: the head or the tail of the default
\* sequence, or the head of the one _unstructured_mode passes
TransformerSequences ==
    { SubSeq(default_transformer_sequence, 1, MaxTransf),
      SubSeq(default_transformer_sequence,
             Len(default_transformer_sequence) - MaxTransf + 1, Len(default_transformer_sequence)),
      SubSeq(unstruct_transformer_sequence, 1, MaxTransf) }

(***************************************************************************)
(* State                                                                    *)
(***************************************************************************)
VARIABLES
    entry,                  \* the endpoint logic running: "advanced" or "simple"
    pc,                     \* where it stands
    addr_data,              \* street_name, house_number, post_code, post_name as received
    transformer_sequence,
    check_postcode,         \* the pass of _advanced_mode
    ti,                     \* the position of "for transf in transformer_sequence"
    previous_attempts,
    all_res,
    call_cnt,
    sou,                    \* the running _struct_or_unstruct: its arguments and pelias_struct
    pelias_res,             \* what _struct_or_unstruct returned
    result,                 \* what the endpoint logic returned
    exception,              \* the exception that left it, None when none
    calls,                  \* history: the requests sent to the geocoder and the interpolator
    sou_log,                \* history: the _struct_or_unstruct invocations
    sou_ret,                \* history: what each invocation of _struct_or_unstruct returned
    address,                \* _unstructured_mode: the free text, as transformed so far
    u_ti,                   \*   the position of 'for transf in ["", "clean"]'
    u_previous_attempts,
    u_all_res,              \*   the attempts kept, each with its rank
    u_call_cnt,
    parsed,                 \*   parsed_text of the last free-text answer
    postalcode_candidates,
    cp_idx,                 \*   the position of "for cp in postalcode_candidates"
    u_result,               \*   what _unstructured_mode returned
    feat,                   \* _search_for_coordinates: the feature
    nb_attempts,            \* call_service: the attempts left
    delay,                  \*   the next sleep, in half seconds
    sleeps,                 \*   history: the sleeps made
    net_log,                \*   history: what each urlopen ended in
    street_res,             \* _interpolate: the street answer, filtered
    fn_args,                \* a function of utils or result_checker called alone: its arguments
    fn_ret                  \*   history: what each of its applications returned

unVars == <<address, u_ti, u_previous_attempts, u_all_res, u_call_cnt, parsed,
            postalcode_candidates, cp_idx, u_result>>
svcVars == <<feat, nb_attempts, delay, sleeps, net_log, street_res>>
fnVars == <<fn_args, fn_ret>>
inputVars == <<entry, addr_data, transformer_sequence, unVars, svcVars, fnVars>>
advVars == <<check_postcode, ti, previous_attempts, all_res, call_cnt>>
vars == <<entry, pc, addr_data, transformer_sequence, check_postcode, ti, previous_attempts,
          all_res, call_cnt, sou, pelias_res, result, exception, calls, sou_log, sou_ret,
          address, u_ti, u_previous_attempts, u_all_res, u_call_cnt, parsed,
          postalcode_candidates, cp_idx, u_result,
          feat, nb_attempts, delay, sleeps, net_log, street_res, fn_args, fn_ret>>

NoSoU == [q |-> AddrData(None, None, None, None), check_postcode |-> TRUE,
          pelias_struct |-> EmptyResult(0), first_call |-> 0]

\* parsed_text, with the keys the engine reads
ParsedText(street, housenumber, postalcode, city) ==
    [street |-> street, housenumber |-> housenumber, postalcode |-> postalcode, city |-> city]
NoParsed == ParsedText(Absent, Absent, Absent, Absent)

\* the state of _unstructured_mode before it has run
UnIdle ==
    /\ u_ti = 1
    /\ u_previous_attempts = <<>>
    /\ u_all_res = <<>>
    /\ u_call_cnt = 0
    /\ parsed = NoParsed
    /\ postalcode_candidates = <<>>
    /\ cp_idx = 1
    /\ u_result = EmptyResult(0)

\* the state of _advanced_mode and _struct_or_unstruct before they have run
AdvIdle ==
    /\ check_postcode = TRUE
    /\ ti = 1
    /\ previous_attempts = <<>>
    /\ all_res = <<>>
    /\ call_cnt = 0
    /\ sou = NoSoU
    /\ pelias_res = EmptyResult(0)
    /\ result = EmptyResult(0)
    /\ exception = None
    /\ calls = <<>>
    /\ sou_log = <<>>
    /\ sou_ret = <<>>

\* the state of call_service and _search_for_coordinates where they are not followed
SvcIdle ==
    /\ feat = fBuilding
    /\ nb_attempts = 0
    /\ delay = 0
    /\ sleeps = <<>>
    /\ net_log = <<>>
    /\ street_res = <<>>

\* no function is called alone
FnIdle ==
    /\ fn_args = <<>>
    /\ fn_ret = <<>>

\* geocode, mode "advanced" or "simple"
Init ==
    /\ entry \in {"advanced", "simple"}
    /\ addr_data \in AddressQueries
    /\ transformer_sequence \in
          (IF entry = "advanced" THEN TransformerSequences ELSE {<<>>})
    /\ pc = IF entry = "advanced" THEN "adv_loop" ELSE "simple"
    /\ address = ""
    /\ UnIdle
    /\ AdvIdle
    /\ SvcIdle
    /\ FnIdle

(***************************************************************************)
(* BePelias._struct_or_unstruct                                            *)
(***************************************************************************)
\* the answers a geocode request of the session may get
Answers == IF entry = "unstructured" THEN RetryOutcomes ELSE GeocodeOutcomes

\* the structured and the free-text entry point are run in turn against one geocoder
Compared == fn_args # <<>> /\ entry \in {"advanced", "unstructured"}

\* the geocoder of the comparison: what it answers to the structured requests and to the
\* free-text ones, what its parser finds in a free text, and what the city search returns
Geocoder(struct, free, p, postcodes) ==
    [struct |-> struct, free |-> free, parsed_text |-> p, postcodes |-> postcodes]

\* the answers a request to that endpoint of Pelias.geocode may get
AnswersTo(api) ==
    IF Compared
    THEN {[status |-> "ok",
           features |-> IF api = "struct" THEN fn_args[2].struct ELSE fn_args[2].free]}
    ELSE Answers

\* the state a new invocation starts in
SoUCall(q, check) ==
    [q |-> q, check_postcode |-> check, pelias_struct |-> EmptyResult(0),
     first_call |-> Len(calls) + 1]

\* one step of the invocation: where it goes, and what it leaves
SoUStep(newpc, newsou, newres, exc, requests, returned) ==
    /\ pc' = newpc
    /\ sou' = newsou
    /\ pelias_res' = newres
    /\ exception' = exc
    /\ calls' = calls \o requests
    /\ sou_ret' = sou_ret \o returned
    /\ UNCHANGED <<inputVars, advVars, result, sou_log>>

SoURaise(exc, requests) == SoUStep("raised", sou, pelias_res, exc, requests, <<>>)
SoUReturn(newsou, res, requests) ==
    SoUStep(IF entry = "simple" THEN "simple_after" ELSE "adv_after",
            newsou, res, exception, requests, <<res>>)

\* lines 209-227 and 256-265: return the set at its first building, located if need be
SoUBuilding(newsou, res, b, requests) ==
    IF res.features[b].coordinates # ZeroCoordinates
    THEN SoUReturn(newsou, res, requests)
    ELSE \E run \in BackfillRuns(res.features[b]) :
            IF run.status = "ok"
            THEN SoUReturn(newsou, [res EXCEPT !.features[b] = run.feat], requests \o run.requests)
            ELSE SoURaise(run.status, requests \o run.requests)

\* a coordinator that sends the free-text request whatever the structured answer holds
SoUStructAnswerGoesOn(pelias_struct, requests) ==
    SoUStep("sou_unstruct", [sou EXCEPT !.pelias_struct = pelias_struct], pelias_res,
            exception, requests, <<>>)

\* lines 201-227, on the structured answer once filtered
SoUStructAnswer(pelias_struct, requests) ==
    IF FirstBuilding(pelias_struct.features) > 0
    THEN SoUBuilding([sou EXCEPT !.pelias_struct = pelias_struct], pelias_struct,
                     FirstBuilding(pelias_struct.features), requests)
    ELSE SoUStep("sou_unstruct", [sou EXCEPT !.pelias_struct = pelias_struct], pelias_res,
                 exception, requests, <<>>)

\* an answer was decoded: one with its "features", or one without the key
Decoded(out) == out.status \in {"ok", "no_features"}

\* the answer has no "features" and the postcode filter, which would add the key (lines 53-56
\* of filter_postcode), is not applied: the next read of pelias_res["features"] raises KeyError
FeaturesMissing(out, q, check) ==
    out.status = "no_features" /\ ~(~IsNull(q.post_code) /\ check)

\* lines 185-227: the structured call
SoUStruct ==
    /\ pc = "sou_struct"
    /\ LET q == sou.q
           addr == build_address(q.street_name, q.house_number)
           req == <<Request("struct", addr, Layers(q.street_name, q.house_number))>>
       IN \E out \in AnswersTo("struct") :
            IF ~Decoded(out) THEN SoURaise(out.status, req)
            ELSE IF FeaturesMissing(out, q, sou.check_postcode) THEN SoURaise("KeyError", req)
            ELSE SoUStructAnswer(
                    ResultSet(CheckedFeatures(out.features, q, sou.check_postcode),
                              "struct", addr, 1),
                    req)

\* lines 256-285, on the free-text answer once filtered
SoUUnstructAnswer(pelias_struct, pelias_unstruct, requests) ==
    IF FirstBuilding(pelias_unstruct.features) > 0
    THEN SoUBuilding([sou EXCEPT !.pelias_struct = pelias_struct], pelias_unstruct,
                     FirstBuilding(pelias_unstruct.features), requests)
    ELSE SoUReturn([sou EXCEPT !.pelias_struct = pelias_struct],
                   SelectResult(pelias_struct, pelias_unstruct), requests)

\* a coordinator without line 246: the structured set keeps the count 1
SoUFinishStale(addr, features, cnt, requests) ==
    SoUUnstructAnswer(
        sou.pelias_struct,
        ResultSet(filter_streetname(CheckedFeatures(features, sou.q, sou.check_postcode),
                                    sou.q.street_name),
                  "unstruct", addr, cnt),
        requests)

\* lines 243-285, once the free-text answer (or none) is there
SoUFinish(addr, features, cnt, requests) ==
    SoUUnstructAnswer(
        [sou.pelias_struct EXCEPT !.pelias_call_count = cnt],
        ResultSet(filter_streetname(CheckedFeatures(features, sou.q, sou.check_postcode),
                                    sou.q.street_name),
                  "unstruct", addr, cnt),
        requests)

\* lines 229-285: the free-text call, and the choice
SoUUnstruct ==
    /\ pc = "sou_unstruct"
    /\ LET q == sou.q
           addr == UnstructAddr(q)
           req == <<Request("unstruct", addr, Layers(q.street_name, q.house_number))>>
       IN IF UnstructSent(addr)
          THEN \E out \in AnswersTo("unstruct") :
                  IF ~Decoded(out) THEN SoURaise(out.status, req)
                  ELSE IF FeaturesMissing(out, q, sou.check_postcode)
                  THEN SoURaise("KeyError", req)
                  ELSE SoUFinish(addr, out.features, 2, req)
          ELSE SoUFinish(addr, <<>>, 1, <<>>)


(***************************************************************************)
(* BePelias._advanced_mode                                                 *)
(***************************************************************************)
\* ";".join(transf)
RECURSIVE Join(_)
Join(transf) ==
    IF transf = <<>> THEN ""
    ELSE IF Len(transf) = 1 THEN transf[1]
    ELSE transf[1] \o ";" \o Join(Tail(transf))

InSeq(x, seq) == \E i \in 1..Len(seq) : seq[i] = x

\* a session without memory of its attempts
NeverTried(transf_addr_data, attempts) == FALSE

\* transf_addr_data in previous_attempts
AlreadyTried(transf_addr_data, attempts) == InSeq(transf_addr_data, attempts)

\* v and len(v) > 0
Truthy(v) == ~IsNull(v) /\ Len(v) > 0

\* no value of the transformed query is worth sending
NoValue(t) ==
    ~Truthy(t.street_name) /\ ~Truthy(t.house_number) /\ ~Truthy(t.post_name) /\ ~Truthy(t.post_code)

\* one step of the session that leaves _struct_or_unstruct's variables alone
AdvStep(newpc, check, i, attempts, res, cnt, out, exc) ==
    /\ pc' = newpc
    /\ check_postcode' = check
    /\ ti' = i
    /\ previous_attempts' = attempts
    /\ all_res' = res
    /\ call_cnt' = cnt
    /\ result' = out
    /\ exception' = exc
    /\ UNCHANGED <<inputVars, sou, pelias_res, calls, sou_log, sou_ret>>

AdvReturn(res, cnt, out) ==
    AdvStep(IF entry = "unstructured" THEN "un_after_adv" ELSE "done", check_postcode, ti, previous_attempts, res, cnt, out, exception)
AdvRaise(exc) ==
    AdvStep("raised", check_postcode, ti, previous_attempts, all_res, call_cnt, result, exc)

\* lines 311-324: one turn of "for transf in transformer_sequence", up to the call
AdvIteration ==
    /\ pc = "adv_loop"
    /\ ti <= Len(transformer_sequence)
    /\ LET transf_addr_data == ApplyTransformers(addr_data, transformer_sequence[ti])
       IN IF AlreadyTried(transf_addr_data, previous_attempts) \/ NoValue(transf_addr_data)
          THEN AdvStep("adv_loop", check_postcode, ti + 1, previous_attempts, all_res, call_cnt,
                       result, exception)
               /\ UNCHANGED <<sou, sou_log>>
          ELSE /\ pc' = "sou_struct"
               /\ previous_attempts' = Append(previous_attempts, transf_addr_data)
               /\ sou' = SoUCall(transf_addr_data, check_postcode)
               /\ sou_log' = Append(sou_log, [q |-> transf_addr_data,
                                              check_postcode |-> check_postcode])
               /\ UNCHANGED <<inputVars, check_postcode, ti, all_res, call_cnt, pelias_res,
                              result, exception, calls, sou_ret>>

\* the conditions of lines 349-353 on the first candidate, the last one aside
ShortcutMatches(feat0) ==
    /\ InSeq(Upper(addr_data.street_name), get_feature_street_names(feat0))
    /\ ~IsNull(addr_data.post_code)
    /\ Has(feat0.postalcode)
    /\ feat0.postalcode = addr_data.post_code
    /\ Len(OrEmpty(addr_data.house_number)) > 0
    /\ AllDigits(OrEmpty(addr_data.house_number))

\* a session that puts the set aside and goes on, where the code returns it
AdvFoundPutAside(res, cnt) ==
    AdvStep("adv_loop", check_postcode, ti + 1, previous_attempts, Append(all_res, res), cnt,
            result, exception)

\* a session that returns the set with the count of its last invocation only
AdvFoundLastCount(res, cnt) == AdvReturn(all_res, cnt, res)

\* lines 336-338 and 358-361: the set is returned, with the calls of the session so far
AdvFound(res, cnt) == AdvReturn(all_res, cnt, [res EXCEPT !.pelias_call_count = cnt])

\* lines 330-363: what the session does with the set _struct_or_unstruct returned
AdvAfter ==
    /\ pc = "adv_after"
    /\ LET transf == transformer_sequence[ti]
           transf_addr_data == previous_attempts[Len(previous_attempts)]
           res == [pelias_res EXCEPT !.transformers =
                       Join(transf) \o (IF check_postcode THEN "" ELSE "(no postcode check)")]
           cnt == call_cnt + pelias_res.pelias_call_count
           precise == [res EXCEPT !.features = add_precision(@)]
           Continue(r) == AdvStep("adv_loop", check_postcode, ti + 1, previous_attempts,
                                  Append(all_res, r), cnt, result, exception)
       IN IF Len(res.features) = 0 THEN Continue(res)
          ELSE IF is_building(res.features[1])
          THEN AdvFound(precise, cnt)
          ELSE IF OrEmpty(transf_addr_data.post_name) # "" THEN Continue(res)
          ELSE IF get_feature_street_names(res.features[1]) = <<>> THEN Continue(res)
          ELSE IF IsNull(addr_data.street_name) THEN AdvRaise("AttributeError")
          ELSE IF ~ShortcutMatches(res.features[1]) THEN Continue(res)
          ELSE IF precise.features[1].precision = "street"
          THEN AdvFound(precise, cnt)
          ELSE Continue(precise)

\* a session that always takes its attempts for empty
NoFeatures(res) == FALSE

SomeFeatures(res) == \E i \in 1..Len(res) : Len(res[i].features) > 0

\* lines 364-368, and the next turn of "for check_postcode in [True, False]"
AdvEndPass ==
    /\ pc = "adv_loop"
    /\ ti > Len(transformer_sequence)
    /\ IF SomeFeatures(all_res) \/ ~check_postcode
       THEN AdvStep("adv_score", check_postcode, ti, previous_attempts, all_res, call_cnt,
                    result, exception)
       ELSE AdvStep("adv_loop", FALSE, 1, <<>>, all_res, call_cnt, result, exception)

\* re.match("[0-9]+", house_number) of line 398 is reached with house_number None
ScoreRaises(res) ==
    /\ Len(res.features) > 0
    /\ Has(res.features[1].housenumber)
    /\ IsNull(addr_data.house_number)

\* "if sim: score = base + sim"
SimScore(base, sim) == IF sim # NoSim THEN base + sim ELSE 0

\* lines 376-407: the score of one attempt, in thousandths
Score(res) ==
    IF Len(res.features) = 0 THEN 0
    ELSE LET feat0 == res.features[1]
         IN (IF Has(feat0.postalcode) /\ feat0.postalcode = addr_data.post_code THEN 1500 ELSE 0)
            + SimScore(1000, check_locality(feat0, addr_data.post_name))
            + (IF Has(feat0.street)
               THEN 1000 + SimScore(0, check_streetname(feat0, addr_data.street_name)) ELSE 0)
            + (IF Has(feat0.housenumber)
               THEN 500 + (IF feat0.housenumber = addr_data.house_number THEN 1000
                           ELSE IF LeadingDigits(feat0.housenumber) # ""
                                   /\ LeadingDigits(feat0.housenumber)
                                      = LeadingDigits(addr_data.house_number)
                           THEN 800 ELSE 0)
               ELSE 0)
            + (IF feat0.coordinates # ZeroCoordinates THEN 1500 ELSE 0)
            + (IF feat0.has_best THEN 1000 ELSE 0)

RECURSIVE Scored(_)
Scored(res) ==
    IF res = <<>> THEN <<>>
    ELSE <<[Head(res) EXCEPT !.score = Score(Head(res))]>> \o Scored(Tail(res))

\* sorted(all_res, key=lambda x: -x["score"]): stable, the highest score first
RECURSIVE InsertByScore(_, _)
InsertByScore(sorted, r) ==
    IF sorted = <<>> THEN <<r>>
    ELSE IF Head(sorted).score >= r.score THEN <<Head(sorted)>> \o InsertByScore(Tail(sorted), r)
    ELSE <<r>> \o sorted
RECURSIVE SortByScore(_, _)
SortByScore(res, sorted) ==
    IF res = <<>> THEN sorted ELSE SortByScore(Tail(res), InsertByScore(sorted, Head(res)))

\* lines 423-435: the first of the sorted attempts, or the empty result
AdvBest(sorted) ==
    IF Len(sorted) > 0 /\ Len(sorted[1].features) > 0
    THEN AdvReturn(sorted, call_cnt,
                   [sorted[1] EXCEPT !.pelias_call_count = call_cnt,
                                     !.features = add_precision(@)])
    ELSE AdvReturn(sorted, call_cnt, EmptyResult(call_cnt))

\* lines 370-435: score the attempts, and return the first of the best
AdvScore ==
    /\ pc = "adv_score"
    /\ IF \E i \in 1..Len(all_res) : ScoreRaises(all_res[i]) THEN AdvRaise("TypeError")
       ELSE AdvBest(SortByScore(Scored(all_res), <<>>))

(***************************************************************************)
(* BePelias.geocode, mode "simple"                                         *)
(***************************************************************************)
Simple ==
    /\ pc = "simple"
    /\ pc' = "sou_struct"
    /\ sou' = SoUCall(addr_data, TRUE)
    /\ sou_log' = Append(sou_log, [q |-> addr_data, check_postcode |-> TRUE])
    /\ UNCHANGED <<inputVars, advVars, pelias_res, result, exception, calls, sou_ret>>

SimpleAfter ==
    /\ pc = "simple_after"
    /\ pc' = "done"
    /\ result' = [pelias_res EXCEPT !.features = add_precision(@)]
    /\ UNCHANGED <<inputVars, advVars, sou, pelias_res, exception, calls, sou_log, sou_ret>>

(***************************************************************************)
(* The except clause of BePelias.geocode and BePelias.geocode_unstructured *)
(***************************************************************************)
HTTP_500_INTERNAL_SERVER_ERROR == 500
\* {"error": str(exc), "status_code": status.HTTP_500_INTERNAL_SERVER_ERROR}
ErrorResult(exc) == [error |-> exc, status_code |-> HTTP_500_INTERNAL_SERVER_ERROR]

\* except PeliasException as exc
Caught(exc) == exc = "PeliasException"

\* lines 681-685 and 707-711: the exception that left the resolution is caught and answered
\* with the error result, or leaves the endpoint
GeocodeExcept ==
    /\ pc = "raised"
    /\ pc' = IF Caught(exception) THEN "error_result" ELSE "propagated"
    /\ result' = IF Caught(exception) /\ entry # "unstructured" THEN ErrorResult(exception)
                 ELSE result
    /\ u_result' = IF Caught(exception) /\ entry = "unstructured" THEN ErrorResult(exception)
                   ELSE u_result
    /\ UNCHANGED <<entry, addr_data, transformer_sequence, svcVars, fnVars, advVars, sou, pelias_res,
                   exception, calls, sou_log, sou_ret, address, u_ti, u_previous_attempts,
                   u_all_res, u_call_cnt, parsed, postalcode_candidates, cp_idx>>

Next ==
    \/ AdvIteration
    \/ SoUStruct
    \/ SoUUnstruct
    \/ AdvAfter
    \/ AdvEndPass
    \/ AdvScore
    \/ Simple
    \/ SimpleAfter
    \/ GeocodeExcept

Spec == Init /\ [][Next]_vars

(***************************************************************************)
(* BePelias._call_unstruct and BePelias._unstructured_mode                 *)
(***************************************************************************)
\* re.sub(r"\(.+?\)", "", s): each "(" up to the first ")" at least one character further
RECURSIVE SubParenLazy(_)
SubParenLazy(s) ==
    IF Len(s) = 0 THEN ""
    ELSE IF Ch(s, 1) = "(" /\ \E j \in 3..Len(s) : Ch(s, j) = ")"
    THEN SubParenLazy(SubSeq(s, 1 + (CHOOSE j \in 3..Len(s) :
                                        /\ Ch(s, j) = ")"
                                        /\ \A k \in 3..(j - 1) : Ch(s, k) # ")"), Len(s)))
    ELSE Ch(s, 1) \o SubParenLazy(SubSeq(s, 2, Len(s)))

\* precision_order.get(precision, 10), and 20 for an attempt without features; doubled, so
\* that the bonus of 0.5 is 1
precision_order(precision) ==
    CASE precision = "address" -> 0
      [] precision = "address_interpol" -> 2
      [] precision = "address_streetcenter" -> 4
      [] precision = "street_interpol" -> 6
      [] precision = "street" -> 8
      [] precision = "address_00" -> 10
      [] precision = "street_00" -> 12
      [] precision = "city" -> 14
      [] OTHER -> 20
NoFeatureScore == 40

\* the free texts a session is started with
FreeTexts == {"Rue Lo 20, 1060 Gent", "Rue Lo (x) 20, Gent", "Gent"}

\* what the parser of the geocoder may have found in a free text
ParsedTexts ==
    { NoParsed,
      ParsedText("Rue Lo", "20", "1060", "Gent"),
      ParsedText("Rue Lo", "20", Absent, "Gent") }

\* the answers to a free-text request: the features, and parsed_text
FreeTextOutcomes ==
    {[status |-> "ok", features |-> r, parsed_text |-> p] :
        r \in {<<>>, <<fStreet>>, <<fBuilding>>, <<fBuilding00>>, <<fCity>>}, p \in ParsedTexts}
    \cup {[status |-> "PeliasException", features |-> <<>>, parsed_text |-> NoParsed]}

\* the answers the free-text request of the session may get
FreeTextAnswers ==
    IF Compared
    THEN {[status |-> "ok", features |-> fn_args[2].free, parsed_text |-> fn_args[2].parsed_text]}
    ELSE FreeTextOutcomes

\* sorted(get_postcode_list(city)): the postal codes the city search may return
PostcodeLists ==
    { <<>>, <<"1060">>, <<"1060", "9000">>, <<"1000", "1060", "2000", "9000", "9999">> }

\* the answers of the city search of the session
CitySearchAnswers == IF Compared THEN {fn_args[2].postcodes} ELSE PostcodeLists

\* lines 466-475 of _call_unstruct: the two filters, then the precisions
CallUnstructFeatures(features, p) ==
    add_precision(
        IF Has(p.street)
        THEN filter_streetname(IF Has(p.postalcode) THEN filter_postcode(features, p.postalcode)
                               ELSE features,
                               p.street)
        ELSE IF Has(p.postalcode) THEN filter_postcode(features, p.postalcode)
        ELSE features)

\* an attempt with its rank
Ranked(res, score) == [res |-> res, score |-> score]

UnStep(newpc, addr, i, attempts, res, cnt, p, cands, idx, out, exc, requests) ==
    /\ pc' = newpc
    /\ address' = addr
    /\ u_ti' = i
    /\ u_previous_attempts' = attempts
    /\ u_all_res' = res
    /\ u_call_cnt' = cnt
    /\ parsed' = p
    /\ postalcode_candidates' = cands
    /\ cp_idx' = idx
    /\ u_result' = out
    /\ exception' = exc
    /\ calls' = calls \o requests
    /\ UNCHANGED <<entry, addr_data, transformer_sequence, svcVars, fnVars, advVars, sou, pelias_res,
                   result, sou_log, sou_ret>>

\* _unstructured_mode returns out
UnReturn(addr, out, requests) ==
    UnStep("done", addr, u_ti, u_previous_attempts, u_all_res, out.pelias_call_count, parsed,
           postalcode_candidates, cp_idx, out, exception, requests)

\* an exception leaves _unstructured_mode
UnRaise(addr, exc, requests) ==
    UnStep("raised", addr, u_ti, u_previous_attempts, u_all_res, u_call_cnt, parsed,
           postalcode_candidates, cp_idx, u_result, exc, requests)

\* a session that returns the relocated building without line 546
UnBuildingStale(addr, res, requests) ==
    IF res.features[1].coordinates # ZeroCoordinates
    THEN UnReturn(addr, res, requests)
    ELSE \E run \in BackfillRuns(res.features[1]) :
            IF run.status = "ok"
            THEN UnReturn(addr, [res EXCEPT !.features[1] = run.feat], requests \o run.requests)
            ELSE UnRaise(addr, run.status, requests \o run.requests)

\* lines 543-548: the first feature is a building
UnBuilding(addr, res, requests) ==
    IF res.features[1].coordinates # ZeroCoordinates
    THEN UnReturn(addr, res, requests)
    ELSE \E run \in BackfillRuns(res.features[1]) :
            IF run.status = "ok"
            THEN UnReturn(addr, [res EXCEPT !.features = add_precision([@ EXCEPT ![1] = run.feat])],
                          requests \o run.requests)
            ELSE UnRaise(addr, run.status, requests \o run.requests)

\* lines 549-558: the attempt is ranked and kept
UnKeep(addr, res, p, requests) ==
    UnStep("un_loop", addr, u_ti + 1, Append(u_previous_attempts, addr),
           Append(u_all_res, Ranked(res, IF Len(res.features) > 0
                                         THEN precision_order(res.features[1].precision)
                                         ELSE NoFeatureScore)),
           res.pelias_call_count, p, postalcode_candidates, cp_idx, u_result, exception, requests)

\* lines 537-558, on the answer of _call_unstruct
UnAttempt(addr, res, p, requests) ==
    IF Len(res.features) > 0 /\ is_building(res.features[1])
    THEN UnBuilding(addr, res, requests)
    ELSE UnKeep(addr, res, p, requests)

\* the free-text request of _call_unstruct(addr)
FreeTextRequest(addr) ==
    Request("unstruct", addr, IF ~HasDigit(addr) THEN "street,locality" ELSE "None")

\* lines 529-558: one turn of 'for transf in ["", "clean"]'
UnTurn(transf, addr) ==
    IF InSeq(addr, u_previous_attempts)
    THEN UnStep("un_loop", addr, u_ti + 1, Append(u_previous_attempts, addr), u_all_res,
                u_call_cnt, parsed, postalcode_candidates, cp_idx, u_result, exception, <<>>)
    ELSE \E out \in FreeTextAnswers :
            IF out.status # "ok" THEN UnRaise(addr, out.status, <<FreeTextRequest(addr)>>)
            ELSE UnAttempt(addr,
                           [ResultSet(CallUnstructFeatures(out.features, out.parsed_text),
                                      "unstruct", addr, u_call_cnt + 1)
                               EXCEPT !.transformers = transf],
                           out.parsed_text, <<FreeTextRequest(addr)>>)

UnIteration ==
    /\ pc = "un_loop"
    /\ u_ti <= 2
    /\ IF u_ti = 1 THEN UnTurn("", address) ELSE UnTurn("clean", SubParenLazy(address))

\* Pelias.geocode of a dict query reads query["locality"]
StructParamsRaise(has_locality) == ~has_locality

\* lines 575-587: the street-only query of the long candidate lists
UnNarrow(cands) ==
    IF StructParamsRaise(FALSE)
    THEN UnStep("raised", address, u_ti, u_previous_attempts, u_all_res, u_call_cnt, parsed,
                cands, 1, u_result, "KeyError", <<>>)
    ELSE UnStep("un_cp", address, u_ti, u_previous_attempts, u_all_res, u_call_cnt, parsed,
                cands, 1, u_result, exception, <<>>)

\* lines 565-587, once the candidates are known
UnCandidates(cands) ==
    IF Len(cands) > 4 THEN UnNarrow(cands)
    ELSE UnStep("un_cp", address, u_ti, u_previous_attempts, u_all_res, u_call_cnt, parsed,
                cands, 1, u_result, exception, <<>>)

\* lines 565-587: the postal codes to try
UnParse ==
    /\ pc = "un_loop"
    /\ u_ti > 2
    /\ IF Has(parsed.postalcode) THEN UnCandidates(<<parsed.postalcode>>)
       ELSE IF Has(parsed.city) THEN \E cands \in CitySearchAnswers : UnCandidates(cands)
       ELSE UnCandidates(<<>>)

\* parsed.get(key, "")
GetOrEmpty(v) == IF Has(v) THEN v ELSE ""

\* lines 589-598: _advanced_mode is called for the next candidate
UnStart ==
    /\ pc = "un_cp"
    /\ cp_idx <= Len(postalcode_candidates)
    /\ pc' = "adv_loop"
    /\ addr_data' = AddrData(GetOrEmpty(parsed.street), GetOrEmpty(parsed.housenumber),
                             postalcode_candidates[cp_idx], GetOrEmpty(parsed.city))
    /\ transformer_sequence' = SubSeq(unstruct_transformer_sequence, 1, MaxTransf)
    /\ check_postcode' = TRUE
    /\ ti' = 1
    /\ previous_attempts' = <<>>
    /\ all_res' = <<>>
    /\ call_cnt' = 0
    /\ sou' = NoSoU
    /\ pelias_res' = EmptyResult(0)
    /\ result' = EmptyResult(0)
    /\ sou_log' = <<>>
    /\ sou_ret' = <<>>
    /\ UNCHANGED <<entry, unVars, svcVars, fnVars, exception, calls>>

\* lines 606-618, on the result of _advanced_mode once annotated
UnStructured(cp, res) ==
    IF Len(res.features) > 0 /\ is_building(res.features[1])
    THEN UnReturn(address, res, <<>>)
    ELSE UnStep("un_cp", address, u_ti, u_previous_attempts,
                Append(u_all_res,
                       Ranked(res, IF Len(res.features) > 0
                                   THEN precision_order(res.features[1].precision)
                                        - (IF res.features[1].postalcode = cp THEN 1 ELSE 0)
                                   ELSE NoFeatureScore)),
                res.pelias_call_count, parsed, postalcode_candidates, cp_idx + 1, u_result,
                exception, <<>>)

\* lines 599-618: the result of _advanced_mode for a candidate
UnAfterAdv ==
    /\ pc = "un_after_adv"
    /\ IF ~Has(result.transformers)
       THEN UnStep("raised", address, u_ti, u_previous_attempts, u_all_res,
                   u_call_cnt + result.pelias_call_count, parsed, postalcode_candidates,
                   cp_idx, u_result, "KeyError", <<>>)
       ELSE UnStructured(postalcode_candidates[cp_idx],
                         [result EXCEPT !.pelias_call_count = u_call_cnt + @,
                                        !.transformers = "parsed(postcode="
                                                         \o postalcode_candidates[cp_idx] \o ");"
                                                         \o @])

\* the first attempt, whatever its rank
FirstRanked(res) == res[1].res

\* min(all_res, key=score): the first of the attempts of the lowest rank
MinRanked(res) ==
    res[CHOOSE i \in 1..Len(res) :
           /\ \A j \in 1..Len(res) : res[i].score <= res[j].score
           /\ \A j \in 1..(i - 1) : res[j].score > res[i].score].res

\* lines 620-632: no building was found
UnBest ==
    /\ pc = "un_cp"
    /\ cp_idx > Len(postalcode_candidates)
    /\ UnReturn(address, [MinRanked(u_all_res) EXCEPT !.pelias_call_count = u_call_cnt], <<>>)

\* geocode_unstructured, mode "advanced"
InitUnstruct ==
    /\ entry = "unstructured"
    /\ address \in FreeTexts
    /\ addr_data = AddrData("", "", "", "")
    /\ transformer_sequence = <<>>
    /\ pc = "un_loop"
    /\ UnIdle
    /\ AdvIdle
    /\ SvcIdle
    /\ FnIdle

NextUnstruct ==
    \/ UnIteration
    \/ UnParse
    \/ UnStart
    \/ AdvIteration
    \/ SoUStruct
    \/ SoUUnstruct
    \/ AdvAfter
    \/ AdvEndPass
    \/ AdvScore
    \/ UnAfterAdv
    \/ UnBest
    \/ GeocodeExcept

SpecUnstruct == InitUnstruct /\ [][NextUnstruct]_vars

(***************************************************************************)
(* test_compare_struct_unstruct: both entry points, one geocoder            *)
(***************************************************************************)
\* the feature lists the geocoder of a comparison answers with
ComparedResponses ==
    { <<>>, <<fBuilding>>, <<fOtherStreet, fBuilding>>, <<fStreet>>, <<fStreet, fBuilding>>,
      <<fCity>> }

\* the geocoders of a comparison
Geocoders ==
    { Geocoder(struct, free, pp[1], pp[2]) :
        struct \in ComparedResponses, free \in ComparedResponses,
        pp \in { <<NoParsed, <<>> >>,
                 <<ParsedText("Rue Lo", "20", "1060", "Gent"), <<>> >>,
                 <<ParsedText("Rue Lo", "20", Absent, "Gent"), <<"1060", "9000">> >>,
                 <<ParsedText("Rue Lo", "20", Absent, "Gent"),
                   <<"1000", "1060", "2000", "9000", "9999">> >> } }

\* what a session has left: what it returned, the requests it sent, the exception if any
Outcome(res) == [res |-> res, calls |-> calls, exc |-> exception]

\* call_geocode(addr) is running; call_unstruct(unstruct) comes next
InitCompare ==
    /\ entry = "advanced"
    /\ addr_data = AddrData("Rue Lo", "20", "1060", "Gent")
    /\ transformer_sequence = SubSeq(default_transformer_sequence, 1, MaxTransf)
    /\ pc = "adv_loop"
    /\ address = ""
    /\ UnIdle
    /\ AdvIdle
    /\ SvcIdle
    /\ fn_args \in {<<"Rue Lo 20, 1060 Gent", g>> : g \in Geocoders}
    /\ fn_ret = <<>>

\* the structured entry point has returned: its answer is kept and the free text is sent
\* to the unstructured one
CompareStructUnstruct ==
    /\ Compared
    /\ entry = "advanced"
    /\ pc = "done"
    /\ fn_ret' = Append(fn_ret, Outcome(result))
    /\ entry' = "unstructured"
    /\ address' = fn_args[1]
    /\ pc' = "un_loop"
    /\ calls' = <<>>
    /\ u_ti' = 1
    /\ u_previous_attempts' = <<>>
    /\ u_all_res' = <<>>
    /\ u_call_cnt' = 0
    /\ parsed' = NoParsed
    /\ postalcode_candidates' = <<>>
    /\ cp_idx' = 1
    /\ u_result' = EmptyResult(0)
    /\ UNCHANGED <<addr_data, transformer_sequence, fn_args, svcVars, advVars, sou, pelias_res,
                   result, exception, sou_log, sou_ret>>

\* how many times the two entry points are run against the geocoder
MaxRounds == 2

\* the unstructured entry point has ended, and the next session starts with memo and
\* count of the one before
NextSessionSharedMemo ==
    /\ Compared
    /\ entry = "unstructured"
    /\ pc \in {"done", "propagated", "error_result"}
    /\ Len(fn_ret) < 2 * MaxRounds - 1
    /\ fn_ret' = Append(fn_ret, Outcome(u_result))
    /\ entry' = "advanced"
    /\ pc' = "adv_loop"
    /\ addr_data' = AddrData("Rue Lo", "20", "1060", "Gent")
    /\ transformer_sequence' = SubSeq(default_transformer_sequence, 1, MaxTransf)
    /\ check_postcode' = TRUE
    /\ ti' = 1
    /\ all_res' = <<>>
    /\ sou' = NoSoU
    /\ pelias_res' = EmptyResult(0)
    /\ result' = EmptyResult(0)
    /\ exception' = None
    /\ calls' = <<>>
    /\ sou_log' = <<>>
    /\ sou_ret' = <<>>
    /\ UNCHANGED <<previous_attempts, call_cnt, address, unVars, svcVars, fn_args>>

\* the unstructured entry point has ended, and the structured one is called again; lines
\* 307-311: its memo, its attempts and its count start empty
NextSession ==
    /\ Compared
    /\ entry = "unstructured"
    /\ pc \in {"done", "propagated", "error_result"}
    /\ Len(fn_ret) < 2 * MaxRounds - 1
    /\ fn_ret' = Append(fn_ret, Outcome(u_result))
    /\ entry' = "advanced"
    /\ pc' = "adv_loop"
    /\ addr_data' = AddrData("Rue Lo", "20", "1060", "Gent")
    /\ transformer_sequence' = SubSeq(default_transformer_sequence, 1, MaxTransf)
    /\ check_postcode' = TRUE
    /\ ti' = 1
    /\ previous_attempts' = <<>>
    /\ all_res' = <<>>
    /\ call_cnt' = 0
    /\ sou' = NoSoU
    /\ pelias_res' = EmptyResult(0)
    /\ result' = EmptyResult(0)
    /\ exception' = None
    /\ calls' = <<>>
    /\ sou_log' = <<>>
    /\ sou_ret' = <<>>
    /\ UNCHANGED <<address, unVars, svcVars, fn_args>>

NextCompare ==
    \/ AdvIteration
    \/ SoUStruct
    \/ SoUUnstruct
    \/ AdvAfter
    \/ AdvEndPass
    \/ AdvScore
    \/ CompareStructUnstruct
    \/ NextSession
    \/ UnIteration
    \/ UnParse
    \/ UnStart
    \/ UnAfterAdv
    \/ UnBest
    \/ GeocodeExcept

SpecCompare == InitCompare /\ [][NextCompare]_vars

(***************************************************************************)
(* Pelias.call_service, under BePelias._search_for_coordinates             *)
(***************************************************************************)
\* call_service(url, nb_attempts=6)
default_nb_attempts == 6
\* delay = 1, and delay += 0.5, counted in half seconds
initial_delay == 2
delay_step == 1

\* the features whose coordinates are searched for
BackfillFeatures ==
    { fBuilding00, fBuildingBox, [fBuilding00 EXCEPT !.id = "be/address/8", !.postalcode = Absent] }

\* what one urlopen(url) of call_service can end in: a decoded body, or an exception
NetOutcomes(api) ==
    {[kind |-> "ok", code |-> 200, body |-> b] :
        b \in (IF api = "interpolate" THEN {<<>>, << <<6, 52>> >>} ELSE {<<>>, <<fStreet>>, <<fCity>>})}
    \cup {[kind |-> "HTTPError", code |-> c, body |-> <<>>] : c \in {400, 500}}
    \cup {[kind |-> k, code |-> 0, body |-> <<>>] :
             k \in {"ConnectionRefusedError", "URLError", "TimeoutError"}}

\* the endpoint call_service is calling
Url == IF pc = "svc_street" THEN "struct" ELSE "interpolate"

\* an interpolation endpoint whose 400 is an error like the others
NeverInterpolateUrl(api) == FALSE

\* self.interpolate_api in url
IsInterpolateUrl(api) == api = "interpolate"

SvcStep(newpc, f, n, d, slept, log, sres, exc) ==
    /\ pc' = newpc
    /\ feat' = f
    /\ nb_attempts' = n
    /\ delay' = d
    /\ sleeps' = slept
    /\ net_log' = log
    /\ street_res' = sres
    /\ exception' = exc
    /\ UNCHANGED <<entry, addr_data, transformer_sequence, unVars, fnVars, advVars, sou,
                   pelias_res, result, calls, sou_log, sou_ret>>

\* lines 77-131: up to the street request of _interpolate
\* the same, asking for the street centre whatever the boxes
BackfillStartAsks ==
    /\ pc = "bf_start"
    /\ IF ~InterpolateAsksStreet(feat)
       THEN SvcStep("bf_done", search_for_coordinates(feat, <<>>, <<>>), nb_attempts, delay,
                    sleeps, net_log, street_res, exception)
       ELSE SvcStep("svc_street", feat, default_nb_attempts, initial_delay, sleeps, net_log,
                    street_res, exception)

BackfillStart ==
    /\ pc = "bf_start"
    /\ IF FirstBoxUsable(feat) \/ ~InterpolateAsksStreet(feat)
       THEN SvcStep("bf_done", search_for_coordinates(feat, <<>>, <<>>), nb_attempts, delay,
                    sleeps, net_log, street_res, exception)
       ELSE SvcStep("svc_street", feat, default_nb_attempts, initial_delay, sleeps, net_log,
                    street_res, exception)

\* call_service returns body to its caller, which goes on to its next request or to its end
SvcReturned(body, log) ==
    IF Url = "struct"
    THEN IF InterpolateAsksInterp(feat, body)
         THEN SvcStep("svc_interp", feat, default_nb_attempts, initial_delay, sleeps, log, body,
                      exception)
         ELSE SvcStep("bf_done", search_for_coordinates(feat, body, <<>>), nb_attempts, delay,
                      sleeps, log, body, exception)
    ELSE SvcStep("bf_done", search_for_coordinates(feat, street_res, body), nb_attempts, delay,
                 sleeps, log, street_res, exception)

\* an exception leaves call_service, and its callers
SvcRaise(exc, log) ==
    SvcStep("bf_raised", feat, nb_attempts, delay, sleeps, log, street_res, exc)

\* a call_service that gives up one attempt early
SvcHttpErrorOneShort(log) ==
    IF nb_attempts <= 2 THEN SvcRaise("PeliasException", log)
    ELSE SvcStep(pc, feat, nb_attempts - 1, delay + delay_step, Append(sleeps, delay), log,
                 street_res, exception)

\* a call_service that does not count its attempts down
SvcHttpErrorNoCountdown(log) ==
    IF nb_attempts = 1 THEN SvcRaise("PeliasException", log)
    ELSE SvcStep(pc, feat, nb_attempts, delay + delay_step, Append(sleeps, delay), log,
                 street_res, exception)

\* lines 99-104: an HTTP error that is not the 400 of the interpolation
SvcHttpError(log) ==
    IF nb_attempts = 1 THEN SvcRaise("PeliasException", log)
    ELSE SvcStep(pc, feat, nb_attempts - 1, delay + delay_step, Append(sleeps, delay), log,
                 street_res, exception)

\* lines 88-112: one turn of "while nb_attempts > 0", on what urlopen ended in
SvcTurn(net, log) ==
    IF net.kind = "ok" THEN SvcReturned(net.body, log)
    ELSE IF net.kind = "HTTPError"
    THEN IF net.code = 400 /\ IsInterpolateUrl(Url) THEN SvcReturned(<<>>, log)
         ELSE SvcHttpError(log)
    ELSE IF net.kind \in {"ConnectionRefusedError", "URLError"}
    THEN SvcRaise("PeliasException", log)
    ELSE SvcRaise(net.kind, log)

CallService ==
    /\ pc \in {"svc_street", "svc_interp"}
    /\ nb_attempts > 0
    /\ \E net \in NetOutcomes(Url) :
          SvcTurn(net, Append(net_log, [api |-> Url, kind |-> net.kind, code |-> net.code,
                                        body |-> net.body]))

\* _search_for_coordinates(feat), with the requests of call_service one by one
InitService ==
    /\ entry = "backfill"
    /\ feat \in BackfillFeatures
    /\ pc = "bf_start"
    /\ addr_data = AddrData("", "", "", "")
    /\ transformer_sequence = <<>>
    /\ address = ""
    /\ nb_attempts = 0
    /\ delay = 0
    /\ sleeps = <<>>
    /\ net_log = <<>>
    /\ street_res = <<>>
    /\ UnIdle
    /\ AdvIdle
    /\ FnIdle

NextService ==
    \/ BackfillStart
    \/ CallService

SpecService == InitService /\ [][NextService]_vars

\* the same, where a turn of "while nb_attempts > 0" that can be taken is taken: urlopen
\* answers or raises, and time.sleep returns
SpecServiceFair == SpecService /\ WF_vars(CallService)

(***************************************************************************)
(* The functions of utils.py and result_checker.py called alone: entry is   *)
(* the function, fn_args its arguments, fn_ret what its applications        *)
(* returned so far.                                                         *)
(***************************************************************************)
MaxApply == 2

\* the features handed to get_precision: every combination of what it reads, and a
\* feature without "properties"
NoProperties == [coordinates |-> <<4, 50>>, bep |-> FALSE, interpolated |-> Absent]
PrecisionFeatures ==
    {[BaseFeature EXCEPT !.layer = l, !.coordinates = c, !.bep = b, !.interpolated = i,
                         !.match_type = m, !.accuracy = a, !.id = d] :
        l \in {"address", "street", "locality", "region", "venue", Absent},
        c \in {ZeroCoordinates, <<4, 50>>},
        b \in BOOLEAN,
        i \in {Absent, "street_center", "True", "from_boxnumber"},
        m \in {"exact", "interpolated", "fallback", Absent},
        a \in {"point", "centroid", Absent},
        d \in {"be/address/1", "be/streetname/7", Absent}}
    \cup {NoProperties}

\* the feature lists handed to filter_postcode, and the postcodes
MaxFeatures == 3
PostcodeFeatures ==
    {[BaseFeature EXCEPT !.id = "be/address/" \o pcode, !.postalcode = pcode] :
        pcode \in {Absent, "1060", "1070", "1160", "9000", "1"}}
FeatureLists(S) == UNION {[1..n -> S] : n \in 0..MaxFeatures}

\* the features and street names handed to check_streetname
StreetnameFeatures ==
    {fStreet, fHouse, fCity, fBare,
     [fCity EXCEPT !.has_best = TRUE, !.best = [NoBest EXCEPT !.municipality_name_fr = "Gent"]],
     [fCity EXCEPT !.has_best = TRUE, !.best = [NoBest EXCEPT !.streetname_nl = "Kerkstraat",
                                                            !.municipality_name_fr = "Gent"]],
     [fHouse EXCEPT !.street = "Rue "],
     [fStreet EXCEPT !.best = [NoBest EXCEPT !.streetname_fr = "Rue Lo",
                                             !.municipality_name_fr = "Gent"]]}
StreetNames == {None, "", "Rue Lo", "rue lo (x)", "Rue Lo, Gent", "Kerkstraat", "Avenue Louise"}

\* the strings and thresholds handed to _apply_sim_functions
SimStrings == {"", "LO", "OL", "LOUISE", "RUE LO", "RUE L.O", "RUE ALBERT", "RUE OLBERT"}
Thresholds == {NoThreshold, 0, 500, 800, 900, 1000}

\* the queries and transformers handed to transform
TransformQueries ==
    {AddrData(sn, hn, pcode, pn) : sn \in {None, "", "Rue Lo", "Rue Lo (x)"},
                                  hn \in {None, "", "20", "20-22"},
                                  pcode \in {None, "1060"},
                                  pn \in {None, "", "Gent", "Gent (x)"}}
Transformers == {"no_city", "no_hn", "no_street", "clean_hn", "clean"}

\* the filtered answers of _struct_or_unstruct that hold no building
NoBuildingResponses ==
    { <<>>, <<fStreet>>, <<fHouse>>, <<fCity>>, <<fBare>>, <<fCity, fStreet>>, <<fBare, fHouse>> }

FnInputs(fn) ==
    CASE fn = "get_precision" -> {<<f>> : f \in {g \in PrecisionFeatures : g.interpolated # Absent => g.bep}}
      [] fn = "filter_postcode" -> FeatureLists(PostcodeFeatures) \X {"1060", "1100", "9000", "1"}
      [] fn = "check_streetname" -> StreetnameFeatures \X StreetNames
      [] fn = "_apply_sim_functions" -> SimStrings \X SimStrings \X Thresholds
      [] fn = "transform" -> TransformQueries \X Transformers
      [] fn = "_struct_or_unstruct" ->
            {<<ResultSet(f, "struct", "Rue Lo, 20", 2), ResultSet(g, "unstruct", "Rue Lo, 20, 1060 Gent", 2)>> :
                f \in NoBuildingResponses, g \in NoBuildingResponses}

InitFunctions ==
    /\ entry \in {"get_precision", "filter_postcode", "check_streetname",
                "_apply_sim_functions", "transform", "_struct_or_unstruct"}
    /\ fn_args \in FnInputs(entry)
    /\ fn_ret = <<>>
    /\ pc = "fn_call"
    /\ addr_data = AddrData("", "", "", "")
    /\ transformer_sequence = <<>>
    /\ address = ""
    /\ UnIdle
    /\ AdvIdle
    /\ SvcIdle

\* one application of the function to the arguments
Apply(fn, value) ==
    /\ entry = fn
    /\ pc = "fn_call"
    /\ Len(fn_ret) < MaxApply
    /\ fn_ret' = Append(fn_ret, value)
    /\ UNCHANGED <<entry, pc, addr_data, transformer_sequence, unVars, svcVars, fn_args, advVars,
                   sou, pelias_res, result, exception, calls, sou_log, sou_ret>>

\* the same, "except KeyError" left out
GetPrecisionUncaught ==
    Apply("get_precision", IF "layer" \notin DOMAIN fn_args[1] THEN "KeyError"
                           ELSE get_precision(fn_args[1]))
GetPrecision == Apply("get_precision", get_precision(fn_args[1]))

\* the same, on the features that have a postal code only
FilterPostcodeStrict ==
    Apply("filter_postcode",
          filter_postcode(SelectSeq(fn_args[1], LAMBDA f : Has(f.postalcode)), fn_args[2]))
FilterPostcode == Apply("filter_postcode", filter_postcode(fn_args[1], fn_args[2]))

\* the same, with "if sim == -1: return 1" left out
CheckStreetnameNoPass ==
    Apply("check_streetname",
          IF ~IsNull(fn_args[2]) /\ get_feature_street_names(fn_args[1]) = <<>> THEN NoSim
          ELSE check_streetname(fn_args[1], fn_args[2]))
CheckStreetname == Apply("check_streetname", check_streetname(fn_args[1], fn_args[2]))

ApplySimFunctions ==
    Apply("_apply_sim_functions", apply_sim_functions(fn_args[1], fn_args[2], fn_args[3]))

\* transform: what it returns, for which argument, and the caller's dict after the call
TransformStep(after) ==
    /\ entry = "transform"
    /\ pc = "fn_call"
    /\ Len(fn_ret) < MaxApply
    /\ fn_ret' = Append(fn_ret, [addr_data |-> transform(fn_args[1], fn_args[2]),
                                 given |-> fn_args[1]])
    /\ fn_args' = <<after, fn_args[2]>>
    /\ UNCHANGED <<entry, pc, addr_data, transformer_sequence, unVars, svcVars, advVars,
                   sou, pelias_res, result, exception, calls, sou_log, sou_ret>>
\* the same, without "addr_data = addr_data.copy()"
TransformInPlace == TransformStep(transform(fn_args[1], fn_args[2]))
Transform == TransformStep(fn_args[1])

\* lines 267-285 of _struct_or_unstruct, on two sets without a building
StructOrUnstructSelect ==
    Apply("_struct_or_unstruct", SelectResult(fn_args[1], fn_args[2]))

NextFunctions ==
    \/ GetPrecision
    \/ FilterPostcode
    \/ CheckStreetname
    \/ ApplySimFunctions
    \/ Transform
    \/ StructOrUnstructSelect

SpecFunctions == InitFunctions /\ [][NextFunctions]_vars

(***************************************************************************)
(* Properties of the structured resolution session                          *)
(***************************************************************************)
\* the requests the running (or last) invocation of _struct_or_unstruct has sent
SoURequests == {k \in sou.first_call..Len(calls) : TRUE}
UnstructIssued == \E k \in SoURequests : calls[k].api = "unstruct"
SoUReturned == pc \in {"adv_after", "simple_after"}
TopIsBuilding(res) == Len(res.features) > 0 /\ is_building(res.features[1])

RECURSIVE SumCounts(_)
SumCounts(returned) ==
    IF returned = <<>> THEN 0 ELSE Head(returned).pelias_call_count + SumCounts(Tail(returned))

\* the queries a complete pass over a transformer sequence sends, in order
RECURSIVE PassQueries(_, _, _)
PassQueries(data, sequence, seen) ==
    IF sequence = <<>> THEN <<>>
    ELSE LET t == ApplyTransformers(data, Head(sequence))
         IN IF InSeq(t, seen) \/ NoValue(t) THEN PassQueries(data, Tail(sequence), seen)
            ELSE <<t>> \o PassQueries(data, Tail(sequence), Append(seen, t))

\* C1 (as the code has it): within one advanced session, _struct_or_unstruct is invoked at
\* most once for any AddressQuery value in each pass; two invocations with the same query
\* belong to different passes (one with check_postcode true, one with it false).
C1_AtMostOncePerPass ==
    \A i, j \in 1..Len(sou_log) :
        (i < j /\ sou_log[i].q = sou_log[j].q)
        => sou_log[i].check_postcode # sou_log[j].check_postcode

\* C1, case reached: two chains of the sequence give the same non-empty query, the pass has
\* gone through both, and the query was sent once in this pass
C1_MemoHit ==
    /\ entry = "advanced"
    /\ Len(transformer_sequence) >= 2
    /\ ti > 2
    /\ ApplyTransformers(addr_data, transformer_sequence[1])
       = ApplyTransformers(addr_data, transformer_sequence[2])
    /\ ~NoValue(ApplyTransformers(addr_data, transformer_sequence[1]))
    /\ Cardinality({i \in 1..Len(sou_log) :
                       /\ sou_log[i].q = ApplyTransformers(addr_data, transformer_sequence[1])
                       /\ sou_log[i].check_postcode = check_postcode}) = 1

\* C1 as stated: no AddressQuery value is sent twice to _struct_or_unstruct over the whole
\* session, both passes included
C1_AtMostOncePerSession ==
    \A i, j \in 1..Len(sou_log) : i < j => sou_log[i].q # sou_log[j].q

C3_StructuredBuildingShortCircuits ==
    FirstBuilding(sou.pelias_struct.features) > 0
    => /\ pc # "sou_unstruct"
       /\ ~UnstructIssued
       /\ SoUReturned
          => /\ pelias_res.call_type = "struct"
             /\ pelias_res.pelias_call_count = 1
             /\ Len(pelias_res.features) = Len(sou.pelias_struct.features)
             /\ \A i \in 1..Len(pelias_res.features) :
                    pelias_res.features[i].id = sou.pelias_struct.features[i].id

\* C3, case reached: an invocation returned on a structured answer whose building is not
\* the first candidate
C3_StructuredBuildingReturned ==
    /\ SoUReturned
    /\ FirstBuilding(sou.pelias_struct.features) > 1
    /\ pelias_res.call_type = "struct"

\* C4: a relaxed invocation (check_postcode false) is made only after the complete strict
\* pass, all of whose invocations returned no candidate.
C4_RelaxedOnlyAfterEmptyStrictPass ==
    \A j \in 1..Len(sou_log) :
        ~sou_log[j].check_postcode
        => LET strict == PassQueries(addr_data, transformer_sequence, <<>>)
           IN /\ j > Len(strict)
              /\ \A i \in 1..Len(strict) :
                    /\ sou_log[i].check_postcode
                    /\ sou_log[i].q = strict[i]
                    /\ Len(sou_ret[i].features) = 0

\* C4, case reached: a relaxed invocation has been made
C4_RelaxedCallMade ==
    /\ entry = "advanced"
    /\ \E j \in 1..Len(sou_log) : ~sou_log[j].check_postcode
    /\ Len(sou_ret) = Len(sou_log)

\* C7: whatever the way an advanced session returns, the pelias_call_count of its result is
\* the sum of the counts of the sets its _struct_or_unstruct invocations returned.
C7_CallCountIsSum ==
    (entry = "advanced" /\ pc = "done") => result.pelias_call_count = SumCounts(sou_ret)

\* C7, case reached: a session returned on a building after several invocations
C7_ReturnedAfterSeveral ==
    /\ entry = "advanced"
    /\ pc = "done"
    /\ Len(sou_ret) >= 2
    /\ TopIsBuilding(result)
    /\ sou_ret[Len(sou_ret)].pelias_call_count < SumCounts(sou_ret)

\* C8: the set an invocation returns carries pelias_call_count 2 when the free-text request
\* was sent and 1 when it was not, whichever of the two sets it is.
C8_CountTellsRequests ==
    SoUReturned => pelias_res.pelias_call_count = (IF UnstructIssued THEN 2 ELSE 1)

\* C8, case reached: the structured set is returned after the free-text request was sent
C8_StructReturnedAfterBoth ==
    /\ SoUReturned
    /\ UnstructIssued
    /\ pelias_res.call_type = "struct"

\* C5 as stated: a session that returns without a building returns an attempt of the highest
\* score among its non-empty attempts, and the empty result only when every attempt was empty.
C5_BestNonEmptyReturned ==
    (entry = "advanced" /\ pc = "done" /\ ~TopIsBuilding(result))
    => IF \A i \in 1..Len(sou_ret) : Len(sou_ret[i].features) = 0
       THEN Len(result.features) = 0
       ELSE /\ Len(result.features) > 0
            /\ \A i \in 1..Len(sou_ret) :
                  Len(sou_ret[i].features) > 0 => Score(result) >= Score(sou_ret[i])

\* C5, where the code leaves it: the empty result although an attempt had candidates (they
\* score 0, and an empty attempt came first)
C5_EmptyDespiteCandidates ==
    /\ entry = "advanced"
    /\ pc = "done"
    /\ Len(result.features) = 0
    /\ \E i \in 1..Len(sou_ret) : Len(sou_ret[i].features) > 0

\* a free-text session in which no attempt so far has returned a candidate
NothingFound ==
    /\ entry = "unstructured"
    /\ pc \notin {"error_result", "propagated"}
    /\ \A i \in 1..Len(u_all_res) : Len(u_all_res[i].res.features) = 0
    /\ \A i \in 1..Len(sou_ret) : Len(sou_ret[i].features) = 0
    /\ Len(result.features) = 0
    /\ Len(u_result.features) = 0

\* the free-text session has ended, no request failed, and the structured retry of every
\* candidate postal code has returned
AllTried ==
    /\ pc \in {"done", "raised"}
    /\ exception # "PeliasException"
    /\ u_ti > 2
    /\ cp_idx >= Len(postalcode_candidates)

\* C6 as stated: a free-text session whose two free-text attempts and whose structured retries
\* all return no candidate completes without raising, and returns the empty result carrying
\* the call count of the session.
C6_NothingFoundReturnsEmpty ==
    (NothingFound /\ AllTried)
    => /\ pc = "done"
       /\ u_result.pelias_call_count = u_call_cnt
       /\ u_call_cnt = Len(calls)

\* C6, where the code leaves it: the retry of a candidate postal code returned the empty
\* result, which has no "transformers", and line 601 raised KeyError
C6_KeyErrorOnEmptyRetry ==
    /\ NothingFound
    /\ AllTried
    /\ pc = "raised"
    /\ exception = "KeyError"
    /\ Len(postalcode_candidates) = 1
    /\ Len(calls) > 2

\* C6, the part the code keeps: with no candidate postal code, the session returns the empty
\* result of the first free-text attempt, with the call count
C6_NoCandidateReturnsEmpty ==
    (NothingFound /\ AllTried /\ postalcode_candidates = <<>>)
    => /\ pc = "done"
       /\ u_result.pelias_call_count = u_call_cnt
       /\ u_call_cnt = Len(calls)

\* the requests call_service has sent to the endpoint of its last one, and whether the last one
\* ended in an HTTP error other than the 400 of the interpolation
LastNet == net_log[Len(net_log)]
IsRetried(e) == e.kind = "HTTPError" /\ ~(e.code = 400 /\ e.api = "interpolate")
SentTo(api) == Cardinality({i \in 1..Len(net_log) : net_log[i].api = api})
RetriedOf(api) == Cardinality({i \in 1..Len(net_log) : net_log[i].api = api /\ IsRetried(net_log[i])})
Backoff(k) == [i \in 1..k |-> initial_delay + (i - 1) * delay_step]

C10_BadRequestIsNoResult ==
    (entry = "backfill" /\ net_log # <<>> /\ LastNet.api = "interpolate"
        /\ LastNet.kind = "HTTPError" /\ LastNet.code = 400)
    => /\ pc = "bf_done"
       /\ exception = None
       /\ feat.interpolated = "street_center"
       /\ feat.coordinates = SamePostcode(street_res, feat.postalcode)[1].coordinates
       /\ feat.coordinates_orig = <<ZeroCoordinates>>
       /\ Len(sleeps) = RetriedOf("struct") + RetriedOf("interpolate")

\* C10: the 400 of the interpolation has been answered, and the street centre adopted
C10_StreetCenterAfter400 ==
    /\ entry = "backfill"
    /\ pc = "bf_done"
    /\ net_log # <<>>
    /\ LastNet.api = "interpolate"
    /\ LastNet.code = 400
    /\ feat.interpolated = "street_center"
    /\ feat.coordinates # ZeroCoordinates

\* C11 as stated: no exception leaves geocode or geocode_unstructured; a failure of a geocoder
\* request ends in the error result.
C11_NeverPropagates ==
    pc # "propagated"

\* C11, where the code leaves it: a geocoder request failed with an exception that is not
\* PeliasException (a timeout while the answer is read), and it left geocode
C11_TimeoutPropagated ==
    /\ entry \in {"advanced", "simple"}
    /\ pc = "propagated"
    /\ exception = "TimeoutError"
    /\ Len(calls) >= 1

\* C11, the part the code keeps: PeliasException is answered with the error result
C11_PeliasExceptionAnswered ==
    (pc \in {"error_result", "propagated"} /\ exception = "PeliasException")
    => /\ pc = "error_result"
       /\ (IF entry = "unstructured" THEN u_result ELSE result) = ErrorResult("PeliasException")

\* C12 as stated: an invocation of _struct_or_unstruct never ends in KeyError, whatever
\* check_postcode and post_code are.
C12_MissingFeaturesNeverRaise ==
    ~(pc = "raised" /\ exception = "KeyError" /\ entry \in {"advanced", "simple"})

\* C12, where the code leaves it: the answer had no "features", the postcode filter was not
\* applied (post_code null, or check_postcode false), and line 211 or 254 raised KeyError
C12_KeyErrorWithoutFilter ==
    /\ entry \in {"advanced", "simple"}
    /\ pc = "raised"
    /\ exception = "KeyError"
    /\ IsNull(sou.q.post_code) \/ ~sou.check_postcode
    /\ SoURequests # {}

\* C12, the part the code keeps: when the postcode filter is applied (post_code given and
\* check_postcode true), no invocation ends in KeyError
C12_FilteredNeverRaise ==
    (entry \in {"advanced", "simple"} /\ pc = "raised" /\ exception = "KeyError")
    => (IsNull(sou.q.post_code) \/ ~sou.check_postcode)

\* C13: advanced mode completes without raising for every combination of absent
\* fields of the query, also when house_number or street_name is absent and the
\* first candidate of an answer, no building, carries a housenumber or a street name.
C13_NullFieldsNeverRaise ==
    ~(entry = "advanced" /\ pc = "raised" /\ exception \in {"AttributeError", "TypeError"})

\* an advanced session on a query without street name or house number has sent
\* requests and ends in the exception of the shortcut test or of the scoring
C13_NullFieldRaised ==
    /\ entry = "advanced" /\ pc = "raised" /\ Len(calls) >= 1
    /\ \/ exception = "AttributeError" /\ IsNull(addr_data.street_name)
       \/ exception = "TypeError" /\ IsNull(addr_data.house_number)

\* the part that holds: with street name and house number both given, an advanced
\* session raises neither of the two
C13_GivenFieldsNeverRaise ==
    (entry = "advanced" /\ ~IsNull(addr_data.street_name) /\ ~IsNull(addr_data.house_number))
        => ~(pc = "raised" /\ exception \in {"AttributeError", "TypeError"})

(***************************************************************************)
(* Properties of the functions called alone                                *)
(***************************************************************************)
\* the labels of the specification's enumeration, and the ones get_precision can return
SpecLabels ==
    {"address", "address_00", "address_interpol", "address_streetcenter", "street_interpol",
     "street", "street_00", "city", "city_00", "country", "unknown"}
CodeLabels ==
    (SpecLabels \ {"unknown"}) \cup {"address_interpol2", "[keyerror]", "[todo]"}

SameLeading(a, b, n) ==
    /\ Min2(Len(a), n) = Min2(Len(b), n)
    /\ \A i \in 1..Min2(Len(a), n) : Ch(a, i) = Ch(b, i)

\* C15: filter_postcode returns exactly the candidates of its input, in their original
\* order, that lack a postalcode or whose postalcode has the same leading match_length
\* characters as the query postcode; a candidate lacking a postalcode is never removed.
C15_KeepsMatchingInOrder ==
    entry = "filter_postcode" =>
        \A k \in 1..Len(fn_ret) :
            /\ fn_ret[k] = SelectSeq(fn_args[1],
                                     LAMBDA f : \/ f.postalcode = Absent
                                                \/ SameLeading(f.postalcode, fn_args[2],
                                                               postcode_match_length))
            /\ \A i \in 1..Len(fn_args[1]) :
                   fn_args[1][i].postalcode = Absent
                       => \E j \in 1..Len(fn_ret[k]) : fn_ret[k][j] = fn_args[1][i]

\* filter_postcode has removed one candidate of three and kept, in order, one without
\* postalcode and one of the query's zone
C15_MixedListFiltered ==
    /\ entry = "filter_postcode" /\ Len(fn_ret) >= 1
    /\ Len(fn_args[1]) = 3 /\ Len(fn_ret[1]) = 2
    /\ fn_ret[1][1].postalcode = Absent
    /\ fn_ret[1][2].postalcode # Absent /\ fn_ret[1][2].postalcode # fn_args[2]
    /\ fn_args[1][1].postalcode = "9000"

\* the candidate carries no street name: no street property, no localized street name
NoStreetData(feature) ==
    /\ feature.street = Absent
    /\ feature.has_best => /\ feature.best.streetname_fr = Absent
                           /\ feature.best.streetname_nl = Absent
                           /\ feature.best.streetname_de = Absent

\* every comparison of check_streetname fails: each variant of the street name against each
\* name of the candidate, prefixed by each of its city names and alone
AllComparisonsFail(feature, street_name) ==
    LET fnames == get_feature_street_names(feature)
        all == FeatNames(feature, fnames, FALSE) \o FeatNames(feature, fnames, TRUE)
        variants == get_streetname_variants(street_name)
    IN \A i \in 1..Len(variants) : \A j \in 1..Len(all) :
           apply_sim_functions(all[j], variants[i], NoThreshold) = NoSim

\* C16: check_streetname returns 1 whenever street_name is null, and 1 for any street_name
\* whenever the candidate carries no street name at all; it returns null only if the
\* candidate carries at least one street name and every comparison fails.
C16_VacuousPass ==
    entry = "check_streetname" =>
        \A k \in 1..Len(fn_ret) :
            /\ IsNull(fn_args[2]) => fn_ret[k] = 1000
            /\ NoStreetData(fn_args[1]) => fn_ret[k] = 1000
            /\ fn_ret[k] = NoSim => /\ ~NoStreetData(fn_args[1])
                                    /\ AllComparisonsFail(fn_args[1], fn_args[2])

\* check_streetname has returned 1 for a street name given and a candidate that has
\* localized names, none of them of a street
C16_PassedWithoutStreetData ==
    /\ entry = "check_streetname" /\ Len(fn_ret) >= 1 /\ fn_ret[1] = 1000
    /\ fn_args[2] = "Avenue Louise" /\ fn_args[1].has_best /\ NoStreetData(fn_args[1])

\* check_streetname has returned null
C16_NoMatch ==
    entry = "check_streetname" /\ Len(fn_ret) >= 1 /\ fn_ret[1] = NoSim

\* the four metrics in the order of the specification
Metric(i, s1, s2) ==
    CASE i = 1 -> jaro_winkler(s1, s2)
      [] i = 2 -> sorensen_dice(s1, s2)
      [] i = 3 -> levenshtein_sim(s1, s2)
      [] i = 4 -> is_partial_substring(s1, s2)

\* sim is the value of the first metric that reaches t, None when none does
FirstReaching(sim, s1, s2, t) ==
    /\ (sim # NoSim) =>
           (sim >= t /\ \E i \in 1..4 : (Metric(i, s1, s2) = sim
                                          /\ \A j \in 1..(i - 1) : Metric(j, s1, s2) < t))
    /\ (sim = NoSim) <=> (\A i \in 1..4 : Metric(i, s1, s2) < t)

C17_NullAtThresholdZero ==
    entry = "_apply_sim_functions" /\ Len(fn_ret) >= 1 /\ fn_args[3] = 0 /\ fn_ret[1] = NoSim

\* C18: for every query q, transform(q, no_city) yields a new query whose post_name is
\* the empty string and whose street_name, house_number and post_code are those of q, and
\* q itself is left unmodified.
C18_NoCityClearsPostNameOnly ==
    (entry = "transform" /\ fn_args[2] = "no_city") =>
        \A k \in 1..Len(fn_ret) :
            /\ fn_ret[k].addr_data.post_name = ""
            /\ fn_ret[k].addr_data.street_name = fn_ret[k].given.street_name
            /\ fn_ret[k].addr_data.house_number = fn_ret[k].given.house_number
            /\ fn_ret[k].addr_data.post_code = fn_ret[k].given.post_code
            /\ DOMAIN fn_ret[k].addr_data = DOMAIN fn_ret[k].given
            /\ fn_args[1] = fn_ret[k].given

\* no_city has been applied to a query that has a post_name
C18_NoCityApplied ==
    /\ entry = "transform" /\ fn_args[2] = "no_city" /\ Len(fn_ret) >= 1
    /\ fn_args[1].post_name = "Gent (x)" /\ fn_ret[1].addr_data.post_name = ""
    /\ fn_args[1].street_name = "Rue Lo (x)"

(***************************************************************************)
(* Properties of the coordinate backfill                                   *)
(***************************************************************************)
\* the reference metadata lists boxes and the first one is located
HasLocatedFirstBox(feature) ==
    /\ feature.has_best /\ feature.best.has_box_info /\ Len(feature.best.box_info) > 0
    /\ feature.best.box_info[1][1] # 0 /\ feature.best.box_info[1][2] # 0

StreetMatches == SelectSeq(street_res, LAMBDA f : f.postalcode = feat.postalcode)

\* C20: when the backfill falls back to the interpolation: if it returns geometry the
\* candidate adopts it with interpolated = true; if a street match exists but the
\* interpolation returns nothing the candidate adopts the street centre with interpolated
\* = "street_center"; if no street match of the same postal code exists the coordinates
\* stay (0,0) and neither annotation nor coordinates_orig is added. Whenever coordinates
\* are replaced, coordinates_orig = (0,0) is recorded.
C20_InterpolationFallbacks ==
    (entry = "backfill" /\ pc = "bf_done")
    => /\ feat.coordinates # ZeroCoordinates => feat.coordinates_orig = <<ZeroCoordinates>>
       /\ ~HasLocatedFirstBox(feat) =>
             IF net_log # <<>> /\ LastNet.api = "interpolate"
             THEN IF LastNet.kind = "ok" /\ LastNet.body # <<>>
                  THEN /\ feat.coordinates = LastNet.body[1]
                       /\ feat.interpolated = "True"
                  ELSE /\ StreetMatches # <<>>
                       /\ feat.coordinates = StreetMatches[1].coordinates
                       /\ feat.interpolated = "street_center"
             ELSE /\ net_log # <<>> => StreetMatches = <<>>
                  /\ net_log = <<>> => feat.postalcode = Absent
                  /\ feat.coordinates = ZeroCoordinates
                  /\ feat.interpolated = Absent
                  /\ feat.coordinates_orig = <<>>
                  /\ ~feat.bep

\* the backfill has adopted the geometry the interpolation returned
C20_InterpolatedGeometryAdopted ==
    /\ entry = "backfill" /\ pc = "bf_done" /\ ~HasLocatedFirstBox(feat)
    /\ net_log # <<>> /\ LastNet.api = "interpolate" /\ LastNet.kind = "ok"
    /\ feat.coordinates = <<6, 52>> /\ feat.interpolated = "True"

\* the street answer held no street of the candidate's postal code: nothing has changed
C20_NoStreetMatchLeftAtZero ==
    /\ entry = "backfill" /\ pc = "bf_done" /\ ~HasLocatedFirstBox(feat)
    /\ street_res # <<>> /\ StreetMatches = <<>>
    /\ feat.coordinates = ZeroCoordinates /\ feat.coordinates_orig = <<>>

\* the ranking of the labels, best first; another label comes after all of them
RankedLabels ==
    <<"address", "address_interpol", "address_streetcenter", "street_interpol", "street",
      "address_00", "street_00", "city">>

\* an attempt of the free text, as opposed to one of the parsed fields with a postal code
IsFreeTextAttempt(res) == res.transformers \in {"", "clean"}

\* the postal code tried by the i-th attempt of the session, a structured one
TriedPostcode(i) ==
    postalcode_candidates[i - Cardinality({j \in 1..Len(u_all_res) :
                                              IsFreeTextAttempt(u_all_res[j].res)})]

\* twice the rank of the i-th attempt: the position of its top label, one more than the
\* last position for another label, two more for an empty attempt, and half a rank less
\* for a structured attempt whose top postal code is the tried one
RankOfAttempt(i) ==
    LET res == u_all_res[i].res
    IN  IF res.features = <<>> THEN 2 * (Len(RankedLabels) + 2)
        ELSE (IF \E k \in 1..Len(RankedLabels) : RankedLabels[k] = res.features[1].precision
              THEN 2 * (CHOOSE k \in 1..Len(RankedLabels) :
                           RankedLabels[k] = res.features[1].precision)
              ELSE 2 * (Len(RankedLabels) + 1))
             - (IF ~IsFreeTextAttempt(res) /\ res.features[1].postalcode = TriedPostcode(i)
                THEN 1 ELSE 0)

\* _unstructured_mode has returned after all its attempts, none with a building on top
ReturnedTheBest ==
    /\ entry = "unstructured" /\ pc = "done"
    /\ u_ti > 2 /\ cp_idx > Len(postalcode_candidates)

TopCandidate(res) == SubSeq(res.features, 1, 1)

\* both entry points have returned
BothReturned == Compared /\ entry = "unstructured" /\ pc = "done" /\ fn_ret # <<>>

\* C22: for an address given both as structured fields and as the equivalent free text,
\* against the same geocoder, the structured entry point and the unstructured entry point
\* (both in advanced mode) return the same top candidate.
C22_SameTopCandidate ==
    BothReturned => TopCandidate(fn_ret[Len(fn_ret)].res) = TopCandidate(u_result)

\* the geocoder gave the same candidates, an address of another street first, to every
\* request, and parsed the free text into the structured fields: the structured entry
\* point returned the other street's address, the unstructured one the street's
C22_TopCandidatesDiffer ==
    /\ BothReturned
    /\ fn_args[2] = Geocoder(<<fOtherStreet, fBuilding>>, <<fOtherStreet, fBuilding>>,
                             ParsedText("Rue Lo", "20", "1060", "Gent"), <<>>)
    /\ TopCandidate(fn_ret[Len(fn_ret)].res) = add_precision(<<fOtherStreet>>)
    /\ TopCandidate(u_result) = add_precision(<<fBuilding>>)

\* when the geocoder answers every request with the one address of the street, both entry
\* points return it
C22_SameTopForOneAddress ==
    (/\ BothReturned
     /\ fn_args[2].struct = <<fBuilding>>
     /\ fn_args[2].free = <<fBuilding>>)
    => (/\ TopCandidate(fn_ret[Len(fn_ret)].res) = TopCandidate(u_result)
        /\ TopCandidate(u_result) = add_precision(<<fBuilding>>))

\* an advanced session of the structured entry point has returned
AdvancedReturned == entry = "advanced" /\ ~Compared /\ pc = "done"

\* no attempt of the session had a building on top
NoBuildingOnTop == \A i \in 1..Len(sou_ret) : ~TopIsBuilding(sou_ret[i])

\* the attempts were scored and sorted, and the first of them (or the empty result, when
\* it is empty) was returned
ChosenByScoring ==
    /\ \A i \in 1..Len(all_res) : all_res[i].score = Score(all_res[i])
    /\ \A i \in 1..(Len(all_res) - 1) : all_res[i].score >= all_res[i + 1].score
    /\ result.features = (IF all_res = <<>> THEN <<>> ELSE add_precision(all_res[1].features))

\* C23: advanced_mode stops before exhausting the transformer sequence only when an
\* attempt's top candidate is building precision: whenever no attempt has a
\* building-precision top candidate, every distinct non-empty transformed query of the
\* pass is attempted and the returned ResultSet is chosen by scoring all attempts.
C23_EarlyStopOnlyOnBuilding ==
    (AdvancedReturned /\ NoBuildingOnTop)
    => (/\ previous_attempts = PassQueries(addr_data, transformer_sequence, <<>>)
        /\ ChosenByScoring)

\* a session has returned a street on top before the end of its transformer sequence,
\* with queries of the pass left unsent and its attempts unscored
C23_StreetReturnedEarly ==
    /\ AdvancedReturned /\ NoBuildingOnTop
    /\ ti < Len(transformer_sequence)
    /\ Len(previous_attempts) < Len(PassQueries(addr_data, transformer_sequence, <<>>))
    /\ result.features # <<>>
    /\ result.features[1].precision = "street"
    /\ \A i \in 1..Len(all_res) : all_res[i].score = NoScore

\* a session that returns without a building on top and without the street of lines
\* 349-361 on top has attempted the whole pass and has chosen by scoring
C23_EarlyStopOnBuildingOrStreet ==
    (/\ AdvancedReturned /\ NoBuildingOnTop
     /\ ~(/\ ti <= Len(transformer_sequence)
          /\ result.features # <<>>
          /\ result.features[1].precision = "street"
          /\ ShortcutMatches(result.features[1])
          /\ OrEmpty(previous_attempts[Len(previous_attempts)].post_name) = ""))
    => (/\ previous_attempts = PassQueries(addr_data, transformer_sequence, <<>>)
        /\ ChosenByScoring)

\* the first qualifying similarity when every (variant, name) pair is compared with the
\* bare candidate names first, and with the locality names prepended after that
BareNamesFirst(feature, street_name) ==
    IF IsNull(street_name) THEN 1000
    ELSE IF get_feature_street_names(feature) = <<>> THEN 1000
    ELSE FirstSim(get_streetname_variants(street_name),
                  <<FeatNames(feature, get_feature_street_names(feature), TRUE),
                    FeatNames(feature, get_feature_street_names(feature), FALSE)>>,
                  1, 1, 1)

\* check_streetname has been applied to its arguments
StreetnameChecked == entry = "check_streetname" /\ fn_ret # <<>>

\* C24: check_streetname compares every (query variant, candidate street name) pair first
\* against the candidate street name without locality prepended, and only after all such
\* comparisons have failed against the candidate street name with locality names
\* prepended; the value returned is the first qualifying similarity in that order.
C24_BareNamesComparedFirst ==
    StreetnameChecked => fn_ret[Len(fn_ret)] = BareNamesFirst(fn_args[1], fn_args[2])

\* a street of Gent checked against "Rue Lo, Gent": the value returned is the similarity
\* of a comparison with "GENT, " prepended, not the one the bare name gives first
C24_PrependedComparedFirst ==
    /\ StreetnameChecked
    /\ get_feature_city_names(fn_args[1]) # <<>>
    /\ fn_ret[Len(fn_ret)] # NoSim
    /\ BareNamesFirst(fn_args[1], fn_args[2]) # NoSim
    /\ fn_ret[Len(fn_ret)] # BareNamesFirst(fn_args[1], fn_args[2])
    /\ fn_ret[Len(fn_ret)] =
          FirstSim(get_streetname_variants(fn_args[2]),
                   <<FeatNames(fn_args[1], get_feature_street_names(fn_args[1]), FALSE)>>,
                   1, 1, 1)

\* for a candidate without locality names the order is of no consequence
C24_SameWithoutLocalityNames ==
    (StreetnameChecked /\ get_feature_city_names(fn_args[1]) = <<>>)
    => fn_ret[Len(fn_ret)] = BareNamesFirst(fn_args[1], fn_args[2])

\* the choice of _struct_or_unstruct has been made between two sets without a building
Selected == entry = "_struct_or_unstruct" /\ fn_ret # <<>>

\* the set is not empty, and its top candidate has a street property
TopHasStreet(res) == res.features # <<>> /\ Has(res.features[1].street)

\* both sets are non-empty and the structured top confidence is strictly the greater
StructMoreConfident(struct, unstruct) ==
    /\ struct.features # <<>> /\ unstruct.features # <<>>
    /\ struct.features[1].confidence > unstruct.features[1].confidence

\* C25: when neither the structured nor the unstructured response of struct_or_unstruct
\* contains a building-precision candidate, the returned set is: the structured set if it
\* is non-empty and (the unstructured set is non-empty and the structured top confidence
\* is strictly greater than the unstructured top confidence, or the structured top
\* candidate has a street property); else the unstructured set if it is non-empty and its
\* top candidate has a street property; else the structured set if non-empty; else the
\* unstructured set.
C25_SelectionPriority ==
    Selected =>
        \A k \in 1..Len(fn_ret) :
            LET struct == fn_args[1]
                unstruct == fn_args[2]
                first == StructMoreConfident(struct, unstruct) \/ TopHasStreet(struct)
            IN (/\ FirstBuilding(struct.features) = 0 /\ FirstBuilding(unstruct.features) = 0
                /\ first => fn_ret[k] = struct
                /\ (~first /\ TopHasStreet(unstruct)) => fn_ret[k] = unstruct
                /\ (~first /\ ~TopHasStreet(unstruct) /\ struct.features # <<>>)
                      => fn_ret[k] = struct
                /\ (~first /\ ~TopHasStreet(unstruct) /\ struct.features = <<>>)
                      => fn_ret[k] = unstruct)

\* a non-empty structured set whose top has no street property and no greater confidence
\* has given way to an unstructured set with a street on top
C25_UnstructuredStreetChosen ==
    /\ Selected
    /\ fn_args[1].features = <<fBare>> /\ fn_args[2].features = <<fStreet>>
    /\ fn_ret[1] = fn_args[2]

\* inside a session: an unstructured set without a building is returned only against a
\* structured set that does not come first, and is empty or has a street on top itself
C25_UnstructuredReturnedInSession ==
    (/\ SoUReturned
     /\ pelias_res.call_type = "unstruct"
     /\ FirstBuilding(pelias_res.features) = 0)
    => (/\ FirstBuilding(sou.pelias_struct.features) = 0
        /\ ~StructMoreConfident(sou.pelias_struct, pelias_res)
        /\ ~TopHasStreet(sou.pelias_struct)
        /\ (TopHasStreet(pelias_res) \/ sou.pelias_struct.features = <<>>))

\* every candidate of the set carries the label get_precision gives it as it stands
PrecisionUpToDate(res) ==
    \A i \in 1..Len(res.features) :
        (/\ res.features[i].bep
         /\ res.features[i].precision = get_precision(res.features[i]))

\* C26: in every candidate of every ResultSet returned by advanced_mode or
\* unstructured_mode, the stored precision annotation equals get_precision evaluated on
\* that candidate's final geometry and annotations, including candidates whose coordinates
\* were replaced by the coordinate backfill after a precision had already been computed.
C26_PrecisionUpToDate ==
    /\ (entry = "unstructured" /\ pc = "done") => PrecisionUpToDate(u_result)
    /\ (entry = "unstructured" /\ pc = "un_after_adv") => PrecisionUpToDate(result)
    /\ (entry = "advanced" /\ pc = "done") => PrecisionUpToDate(result)

\* unstructured_mode has returned a building that _call_unstruct had labelled at (0,0)
\* and that the backfill has moved since
C26_RelabelledAfterBackfill ==
    /\ entry = "unstructured" /\ pc = "done"
    /\ u_result.call_type = "unstruct"
    /\ u_result.features # <<>>
    /\ u_result.features[1].coordinates_orig = <<ZeroCoordinates>>
    /\ u_result.features[1].coordinates # ZeroCoordinates
    /\ u_result.features[1].precision \in {"address_interpol", "address_streetcenter"}

\* the free-text session has gone past the choice of its candidate postal codes
CandidatesChosen == entry = "unstructured" /\ ~Compared /\ u_ti > 2 /\ pc # "un_loop"

\* the session is over
SessionOver == pc \in {"done", "raised", "propagated", "error_result"}

\* some structured request was sent
StructuredAttempted == \E k \in 1..Len(calls) : calls[k].api = "struct"

\* C27: in unstructured_mode, the postal codes for which a structured resolution is
\* attempted are: the parsed postal code alone if the parser found one; otherwise the
\* city-search result set, replaced by its intersection with the postal codes of the
\* street-only query when it has more than 4 elements and that intersection is non-empty;
\* otherwise none. The tried set is always a subset of the parser/city-search candidates,
\* and no structured attempt is made when the parser found neither postal code nor city.
C27_CandidatesAttempted ==
    CandidatesChosen
    => (/\ Has(parsed.postalcode) => postalcode_candidates = <<parsed.postalcode>>
        /\ (~Has(parsed.postalcode) /\ Has(parsed.city))
              => postalcode_candidates \in PostcodeLists
        /\ (~Has(parsed.postalcode) /\ ~Has(parsed.city))
              => (postalcode_candidates = <<>> /\ ~StructuredAttempted)
        /\ (SessionOver /\ postalcode_candidates # <<>>) => StructuredAttempted)

\* the city search gave more than 4 postal codes: the session has ended in the KeyError of
\* the street-only query, and no structured resolution was attempted for any of them
C27_NarrowingRaised ==
    /\ CandidatesChosen
    /\ pc = "raised" /\ exception = "KeyError"
    /\ Len(postalcode_candidates) > 4
    /\ ~StructuredAttempted

\* with at most 4 candidates the claim holds: the candidates are the parsed postal code or
\* the city-search list, none without postal code and city, and they are attempted
C27_ShortListsAttempted ==
    (CandidatesChosen /\ Len(postalcode_candidates) <= 4)
    => (/\ Has(parsed.postalcode) => postalcode_candidates = <<parsed.postalcode>>
        /\ (~Has(parsed.postalcode) /\ Has(parsed.city))
              => postalcode_candidates \in PostcodeLists
        /\ (~Has(parsed.postalcode) /\ ~Has(parsed.city))
              => (postalcode_candidates = <<>> /\ ~StructuredAttempted)
        /\ (SessionOver /\ postalcode_candidates # <<>>) => StructuredAttempted
        /\ \A k \in 1..Len(sou_log) :
              sou_log[k].q.post_code \in {postalcode_candidates[i] :
                                            i \in 1..Len(postalcode_candidates)})

\* the sleeps of the call_service sent to the endpoint: one after each HTTP error that was
\* not the last attempt
SleptFor(api) ==
    IF RetriedOf(api) = default_nb_attempts THEN RetriedOf(api) - 1 ELSE RetriedOf(api)

\* call_service is running
InCallService == pc \in {"svc_street", "svc_interp"}

\* what holds of call_service at every moment
CallServiceBounded ==
    entry = "backfill"
    => (/\ \A api \in {"struct", "interpolate"} :
              (/\ SentTo(api) <= default_nb_attempts
               /\ RetriedOf(api) = default_nb_attempts
                     => (pc = "bf_raised" /\ exception = "PeliasException"))
        /\ sleeps = Backoff(SleptFor("struct")) \o Backoff(SleptFor("interpolate"))
        /\ InCallService => nb_attempts = default_nb_attempts - SentTo(Url)
        /\ pc = "bf_raised" => exception # None
        /\ pc = "bf_done" => (/\ exception = None
                              /\ net_log # <<>> => (\/ LastNet.kind = "ok"
                                                    \/ (LastNet.code = 400
                                                        /\ LastNet.api = "interpolate"))))

\* C28: call_service always terminates: under persistent HTTP errors it issues at most
\* nb_attempts (default 6) requests, sleeps only between attempts with delays 1, 1.5, 2,
\* ... (increasing by 0.5 per retry), and raises PeliasException on the last failed
\* attempt; it never returns without either a decoded response, an empty result, or an
\* exception.
C28_CallServiceTerminates ==
    /\ []CallServiceBounded
    /\ (pc = "svc_street") ~> (pc \in {"svc_interp", "bf_done", "bf_raised"})
    /\ (pc = "svc_interp") ~> (pc \in {"bf_done", "bf_raised"})

\* six requests in a row ended in an HTTP error: five sleeps of 1 to 3 seconds were made
\* between them, and PeliasException was raised at the sixth
C28_GaveUpAtSixthRequest ==
    /\ entry = "backfill" /\ pc = "bf_raised" /\ exception = "PeliasException"
    /\ SentTo("struct") = default_nb_attempts /\ RetriedOf("struct") = default_nb_attempts
    /\ sleeps = <<2, 3, 4, 5, 6>>

\* the two entry points have been run MaxRounds times, and the last session is over
LastSessionOver ==
    /\ Compared /\ entry = "unstructured"
    /\ Len(fn_ret) = 2 * MaxRounds - 1
    /\ pc \in {"done", "propagated", "error_result"}

EmptyOrNumeric(text) == Strip(text) = "" \/ AllDigits(text)

\* the invocations of _struct_or_unstruct that have returned and whose composed free text is
\* empty or numeric
SkippedInvocations ==
    {i \in 1..Len(sou_ret) : EmptyOrNumeric(UnstructAddr(sou_log[i].q))}

\* C30: struct_or_unstruct never sends an unstructured geocode request whose composed
\* free-text query is empty or consists only of digits; in that case the unstructured result
\* is an empty candidate list and call_count stays 1.
C30_NoEmptyOrNumericFreeText ==
    entry \in {"advanced", "simple"} /\ ~Compared
    => (/\ \A i \in 1..Len(calls) : calls[i].api = "unstruct" => ~EmptyOrNumeric(calls[i].text)
        /\ \A i \in SkippedInvocations :
              (/\ sou_ret[i].pelias_call_count = 1
               /\ (sou_ret[i].call_type = "unstruct"
                   => (sou_ret[i].features = <<>>
                       /\ sou_ret[i].in_addr = UnstructAddr(sou_log[i].q)))))

\* a query reduced to its postal code has gone through _struct_or_unstruct: the free text
\* "1060" was not sent, and the empty unstructured set came back with the count 1
C30_NumericTextSkipped ==
    /\ entry \in {"advanced", "simple"} /\ ~Compared
    /\ \E i \in SkippedInvocations :
          /\ UnstructAddr(sou_log[i].q) = "1060"
          /\ sou_ret[i].call_type = "unstruct"
          /\ sou_ret[i].features = <<>>
          /\ sou_ret[i].pelias_call_count = 1
    /\ \A i \in 1..Len(calls) : calls[i].api # "unstruct"
    /\ calls # <<>>


====
